---------------------------- MODULE Spec2Model ----------------------------
(***************************************************************************)
(* Model of the remote-job lifecycle manager of qiskit-ibm-runtime         *)
(* (RuntimeJobV2, src/qiskit_ibm_runtime/runtime_job_v2.py) together with  *)
(* the remote service it polls.                                            *)
(*                                                                         *)
(* One Job object, owned by one caller thread, talks to one remote job.    *)
(* The service changes the remote job on its own; the caller invokes the   *)
(* Job object's methods one at a time.  A method that blocks in            *)
(* wait_for_final_state is split at its suspension point (the sleep        *)
(* between two polls), where the service may move.                         *)
(*                                                                         *)
(* Time is counted in units of 50 ms, so that the fixed poll interval of   *)
(* 0.1 s is PollInterval = 2 units and timeouts need not be multiples of   *)
(* the poll interval.                                                      *)
(***************************************************************************)
EXTENDS Integers, Sequences, FiniteSets, TLC

(***************************************************************************)
(* Bounds of the model.                                                    *)
(***************************************************************************)
\* largest timeout a caller passes, in 50 ms units
MaxTimeout == 3
\* largest time one status round trip (and any oversleeping) takes, in units
MaxLatency == 1

(***************************************************************************)
(* Program constants.                                                      *)
(***************************************************************************)
\* time.sleep(0.1): 0.1 s = 2 units of 50 ms
PollInterval == 2
\* reason code "ran past maximum allowed time"
MaxTimeReasonCode == 1305
\* HTTP status codes the handlers tell apart
Conflict == 409
NotFound == 404

(***************************************************************************)
(* Python values.                                                          *)
(***************************************************************************)
\* Python's None where the other values are strings
None == "None"
\* timeout=None ("wait indefinitely"), where the other values are numbers
NoTimeout == -1
\* an absent reason code (None); a falsy value as in Python
NoReason == 0
\* some reason code of the service other than 1305
OtherReasonCode == MaxTimeReasonCode + 1
ReasonCodes == {NoReason, MaxTimeReasonCode, OtherReasonCode}

Timeouts == {NoTimeout} \cup (0..MaxTimeout)

\* raw result payloads of the transport: absent, empty, and two non-empty ones
Payloads == {None, "", "payload_a", "payload_b"}
\* the test "result_raw is not None" in place of the truth value
is_not_none(result_raw) == result_raw # None

\* Python truth value of a raw payload: None and the empty payload are falsy
Truthy(result_raw) == result_raw \notin {None, ""}

\* decoder classes; NoDecoder is the default decoder=None of result()
NoDecoder == "NoDecoder"
Decoders == {"ResultDecoder", "EstimatorResultDecoder"}
\* decoder.decode(raw): the decoder is a pluggable collaborator, its value is
\* kept as the application term
decode(decoder, result_raw) == <<"decoded", decoder, result_raw>>

(***************************************************************************)
(* Status strings.                                                         *)
(***************************************************************************)
\* the states the service keeps for a job, as it writes them; "Pending" is a
\* status outside the mapping table
ServerStatuses == {"Pending", "Queued", "Running", "Completed", "Failed", "Cancelled"}
ServerFinal == {"Completed", "Failed", "Cancelled"}

\* the letter cases in which a response may carry a server state
Casings(s) ==
    CASE s = "Pending"   -> {"Pending", "pending", "PENDING"}
      [] s = "Queued"    -> {"Queued", "queued", "QUEUED"}
      [] s = "Running"   -> {"Running", "running", "RUNNING"}
      [] s = "Completed" -> {"Completed", "completed", "COMPLETED"}
      [] s = "Failed"    -> {"Failed", "failed", "FAILED"}
      [] s = "Cancelled" -> {"Cancelled", "cancelled", "CANCELLED"}

RawStatuses == UNION {Casings(s) : s \in ServerStatuses}

\* the letter case in which the service writes the status of its responses
LetterCases == {"title", "lower", "upper"}

\* the status string of a response: server state s written in letter case c
Wire(s, c) ==
    CASE c = "title" -> s
      [] c = "lower" -> (CASE s = "Pending"   -> "pending"
                           [] s = "Queued"    -> "queued"
                           [] s = "Running"   -> "running"
                           [] s = "Completed" -> "completed"
                           [] s = "Failed"    -> "failed"
                           [] s = "Cancelled" -> "cancelled")
      [] c = "upper" -> (CASE s = "Pending"   -> "PENDING"
                           [] s = "Queued"    -> "QUEUED"
                           [] s = "Running"   -> "RUNNING"
                           [] s = "Completed" -> "COMPLETED"
                           [] s = "Failed"    -> "FAILED"
                           [] s = "Cancelled" -> "CANCELLED")

\* str.upper() on the raw status strings
upper(s) ==
    CASE s \in Casings("Pending")   -> "PENDING"
      [] s \in Casings("Queued")    -> "QUEUED"
      [] s \in Casings("Running")   -> "RUNNING"
      [] s \in Casings("Completed") -> "COMPLETED"
      [] s \in Casings("Failed")    -> "FAILED"
      [] s \in Casings("Cancelled") -> "CANCELLED"

API_TO_JOB_STATUS ==
    [api_status \in {"QUEUED", "RUNNING", "COMPLETED", "FAILED", "CANCELLED"} |->
        CASE api_status = "QUEUED"    -> "QUEUED"
          [] api_status = "RUNNING"   -> "RUNNING"
          [] api_status = "COMPLETED" -> "DONE"
          [] api_status = "FAILED"    -> "ERROR"
          [] api_status = "CANCELLED" -> "CANCELLED"]

\* JOB_FINAL_STATES with "CANCELLED" left out
JOB_FINAL_STATES_without_cancelled == {"DONE", "ERROR"}

\* JOB_FINAL_STATES with the status the table does not map added
JOB_FINAL_STATES_with_unmapped == {"DONE", "CANCELLED", "ERROR", "PENDING"}

JOB_FINAL_STATES == {"DONE", "CANCELLED", "ERROR"}

\* _status_from_job_response with the raw status looked up as sent, not
\* upper-cased
_status_from_job_response_no_upper(response, reason_code) ==
    LET api_status == response.state.status
    IN  IF api_status \in DOMAIN API_TO_JOB_STATUS
        THEN LET mapped_job_status == API_TO_JOB_STATUS[api_status]
             IN  IF mapped_job_status = "CANCELLED" /\ reason_code = MaxTimeReasonCode
                 THEN "ERROR"
                 ELSE mapped_job_status
        ELSE api_status

\* _status_from_job_response returning a status that is not in the table as
\* the response carries it
_status_from_job_response_raw_passthrough(response, reason_code) ==
    LET api_status == upper(response.state.status)
    IN  IF api_status \in DOMAIN API_TO_JOB_STATUS
        THEN LET mapped_job_status == API_TO_JOB_STATUS[api_status]
             IN  IF mapped_job_status = "CANCELLED" /\ reason_code = MaxTimeReasonCode
                 THEN "ERROR"
                 ELSE mapped_job_status
        ELSE response.state.status

\* _status_from_job_response without the reclassification of a cancellation
\* with reason code 1305
_status_from_job_response_no_reclassify(response, reason_code) ==
    LET api_status == upper(response.state.status)
    IN  IF api_status \in DOMAIN API_TO_JOB_STATUS
        THEN API_TO_JOB_STATUS[api_status]
        ELSE api_status

\* RuntimeJobV2._status_from_job_response; reason_code is self._reason_code
_status_from_job_response(response, reason_code) ==
    LET api_status == upper(response.state.status)
    IN  IF api_status \in DOMAIN API_TO_JOB_STATUS
        THEN LET mapped_job_status == API_TO_JOB_STATUS[api_status]
             IN  IF mapped_job_status = "CANCELLED" /\ reason_code = MaxTimeReasonCode
                 THEN "ERROR"
                 ELSE mapped_job_status
        ELSE api_status

(***************************************************************************)
(* State.                                                                  *)
(***************************************************************************)
VARIABLES
    srvStatus,      \* the service: state of the remote job
    srvReason,      \* the service: reason code of the remote job
    srvResult,      \* the service: raw result payload of the remote job
    srvCase,        \* the service: letter case of the status in its responses
    _status,        \* Job._status
    _reason_code,   \* Job._reason_code
    _error_message, \* Job._error_message
    _backend,       \* Job._backend
    _final_result_decoder, \* Job._final_result_decoder
    pc,             \* the caller: "idle", or "waiting" inside wait_for_final_state
    call,           \* the method in progress and its arguments
    elapsed,        \* wait_for_final_state: time.time() - start_time
    sleeps,         \* wait_for_final_state: number of time.sleep(0.1) done
    calls,          \* transport and decoder calls made by the latest method call
    out,            \* outcome of the latest method call
    peer,           \* _status and _reason_code of a second Job object bound
                    \* to the same remote job
    metadata,       \* Job: identifier and submission metadata
    wire,           \* the wire dictionary a backend configuration is built from
    config,         \* the backend configuration object
    cout,           \* outcome of the latest call on the backend configuration
    _DEFAULT_SESSION, \* the session of the enclosing `with` block, if any
    faults,         \* the faulty qubits and edges of each backend
    inst,           \* the primitive constructed last
    submits,        \* number of jobs handed to the transport
    pout            \* outcome of the latest session or primitive call

vars == <<srvStatus, srvReason, srvResult, srvCase, _status, _reason_code,
          _error_message, _backend, _final_result_decoder, pc, call, elapsed,
          sleeps, calls, out, peer, metadata, wire, config, cout,
          _DEFAULT_SESSION, faults, inst, submits, pout>>

srvVars == <<srvStatus, srvReason, srvResult, srvCase>>
jobVars == <<_status, _reason_code, _error_message, _backend,
            _final_result_decoder, metadata>>
waitVars == <<pc, call, elapsed, sleeps>>
primVars == <<_DEFAULT_SESSION, faults, inst, submits, pout>>
\* what no method of the job reads or writes
cfgVars == <<wire, config, cout, primVars>>

\* no backend has a fault, no session is open, no primitive exists
NoFaults == [faulty_qubits |-> {}, faulty_edges |-> {}]
NoPrimitive == [built |-> FALSE]
NoRun == [op |-> "none", arg |-> <<>>, ambient |-> <<>>, exc |-> None,
          named |-> <<>>]
BackendNames == {"ibm_gotham", "ibm_metropolis"}
NoPrimitives ==
    /\ _DEFAULT_SESSION = <<>>
    /\ faults = [name \in BackendNames |-> NoFaults]
    /\ inst = NoPrimitive
    /\ submits = 0
    /\ pout = NoRun


(***************************************************************************)
(* Records of the model.                                                   *)
(***************************************************************************)
\* no transport or decoder call made yet by the current method call.
\*   status: status requests issued by the latest self.status() call
\*   results, decode, cancel, logs, job_get: job_results / decoder.decode /
\*     job_cancel / job_logs / job_get calls of the current method call
\*   warning: logger.warning calls of the current method call
\*   status_code: HTTP status code that answered the job_cancel or job_logs
\*     request of the current method call (0: no such request)
NoCalls == [status |-> 0, results |-> 0, decode |-> 0, cancel |-> 0,
            logs |-> 0, job_get |-> 0, warning |-> 0, status_code |-> 0]

NoCall == [op |-> "none", timeout |-> NoTimeout, decoder |-> NoDecoder]

\* The outcome of a method call.  ret is <<v>> when the call returned the
\* value v, and <<>> when it returned None, raised, or has not returned yet.
\* a method call that returned the value ret
Returned(op, ret) == [op |-> op, ret |-> <<ret>>, exc |-> None]
\* a method call that returned None
ReturnedNone(op) == [op |-> op, ret |-> <<>>, exc |-> None]
\* a method call that raised exc
Raised(op, exc) == [op |-> op, ret |-> <<>>, exc |-> exc]
\* a method call still blocked in wait_for_final_state
Blocked(op) == [op |-> op, ret |-> <<>>, exc |-> "blocked"]

\* the backend object service.backend(name) resolves a backend name to
service_backend(name) == CASE name = "ibm_x" -> "Backend(ibm_x)"

\* the body of the status response for the remote job, with the status
\* string raw
Response(raw) == [state |-> [status |-> raw, reason_code |-> srvReason]]

\* the job identifier and the submission metadata the constructor is given
SubmissionMetadata ==
    {[job_id |-> "job_1", program_id |-> "sampler",
      creation_date |-> "2024-01-01T00:00:00Z", session_id |-> "session_1",
      tags |-> <<"tag_a">>, version |-> 2, private |-> FALSE]}

\* the Job model runs with no backend configuration at hand, and the other
\* way round
NoWire == [cls |-> "none"]
NoConfig == [built |-> FALSE]
NoOutcome == [op |-> "none", arg |-> <<>>, ret |-> <<>>, exc |-> None]

\* a Job object as its constructor leaves it (status and reason code)
NewJob == [_status |-> "INITIALIZING", _reason_code |-> NoReason]

(***************************************************************************)
(* Initial state: a Job object constructed for a remote job that is in any *)
(* state (a fresh submission, or an existing job looked up by identifier). *)
(***************************************************************************)
Init ==
    /\ srvStatus \in ServerStatuses
    /\ srvReason \in (IF srvStatus \in {"Failed", "Cancelled"}
                      THEN ReasonCodes ELSE {NoReason})
    /\ srvResult \in (IF srvStatus = "Completed" THEN Payloads ELSE {None})
    /\ srvCase \in LetterCases
    /\ _status = "INITIALIZING"
    /\ _reason_code = NoReason
    /\ _error_message = None
    /\ _backend \in {None, service_backend("ibm_x")}
    /\ _final_result_decoder \in Decoders
    /\ pc = "idle"
    /\ call = NoCall
    /\ elapsed = 0
    /\ sleeps = 0
    /\ calls = NoCalls
    /\ out = ReturnedNone("__init__")
    /\ peer = NewJob
    /\ metadata \in SubmissionMetadata
    /\ wire = NoWire
    /\ config = NoConfig
    /\ cout = NoOutcome
    /\ NoPrimitives

(***************************************************************************)
(* The remote service.                                                     *)
(***************************************************************************)
\* the service moves the job between its non-final states
ServerAdvance ==
    /\ \/ srvStatus = "Pending" /\ srvStatus' = "Queued"
       \/ srvStatus = "Queued"  /\ srvStatus' = "Running"
       \/ srvStatus = "Running" /\ srvStatus' = "Queued"
    /\ UNCHANGED <<srvReason, srvResult>>
    /\ UNCHANGED <<srvCase, jobVars, waitVars, calls, out, peer, cfgVars>>

\* the job completes and its result payload becomes available
ServerComplete ==
    /\ srvStatus = "Running"
    /\ srvStatus' = "Completed"
    /\ srvResult' \in Payloads
    /\ UNCHANGED srvReason
    /\ UNCHANGED <<srvCase, jobVars, waitVars, calls, out, peer, cfgVars>>

\* the job fails, with or without a reason code
ServerFail ==
    /\ srvStatus \notin ServerFinal
    /\ srvStatus' = "Failed"
    /\ srvReason' \in ReasonCodes
    /\ UNCHANGED srvResult
    /\ UNCHANGED <<srvCase, jobVars, waitVars, calls, out, peer, cfgVars>>

\* the service cancels the job on its own; reason code 1305 when the job ran
\* past the maximum allowed time
ServerCancel ==
    /\ srvStatus \notin ServerFinal
    /\ srvStatus' = "Cancelled"
    /\ srvReason' \in ReasonCodes
    /\ UNCHANGED srvResult
    /\ UNCHANGED <<srvCase, jobVars, waitVars, calls, out, peer, cfgVars>>

(***************************************************************************)
(* Status refresh.                                                         *)
(***************************************************************************)
\* BaseRuntimeJob._set_status: records the reason code the response carries,
\* then maps the raw status
_set_status(response) ==
    /\ _reason_code' = IF response.state.reason_code # NoReason
                       THEN response.state.reason_code
                       ELSE _reason_code
    /\ _status' = _status_from_job_response(response, _reason_code')

\* BaseRuntimeJob._set_error_message: the error message of the response is
\* kept when the status is ERROR, and none otherwise
_set_error_message(response) ==
    _error_message' = IF _status' = "ERROR" THEN "error message" ELSE None

\* BaseRuntimeJob._set_status_and_error_message, the body of status(): one
\* round trip to the status endpoint unless the cached status is final.
\* base is the calls record of the enclosing method call.
_set_status_and_error_message(base) ==
    IF _status \in JOB_FINAL_STATES
    THEN /\ UNCHANGED <<_status, _reason_code, _error_message>>
         /\ calls' = [base EXCEPT !.status = 0]
    ELSE LET response == Response(Wire(srvStatus, srvCase))
         IN  /\ _set_status(response)
             /\ _set_error_message(response)
             /\ calls' = [base EXCEPT !.status = 1]

(***************************************************************************)
(* Methods of the Job object that do not block.                            *)
(***************************************************************************)
\* a method that does not wait has no wait_for_final_state frame: the locals
\* of the latest wait are gone
wait_locals_gone ==
    /\ pc' = "idle"
    /\ call' = NoCall
    /\ elapsed' = 0
    /\ sleeps' = 0

\* status() taking the creation date from the status response
status_refreshing_metadata ==
    /\ pc = "idle"
    /\ _set_status_and_error_message(NoCalls)
    /\ out' = Returned("status", _status')
    /\ metadata' = [metadata EXCEPT !.creation_date = "created"]
    /\ UNCHANGED <<srvVars, _backend, _final_result_decoder, peer, cfgVars>>
    /\ wait_locals_gone

\* status() returning the cached status without a refresh
status_cached ==
    /\ pc = "idle"
    /\ calls' = NoCalls
    /\ out' = Returned("status", _status)
    /\ UNCHANGED <<srvVars, jobVars, peer, cfgVars>>
    /\ wait_locals_gone

status ==
    /\ pc = "idle"
    /\ _set_status_and_error_message(NoCalls)
    /\ out' = Returned("status", _status')
    /\ UNCHANGED <<srvVars, _backend, _final_result_decoder, metadata,
                   peer, cfgVars>>
    /\ wait_locals_gone

cancelled ==
    /\ pc = "idle"
    /\ _set_status_and_error_message(NoCalls)
    /\ out' = Returned("cancelled", _status' = "CANCELLED")
    /\ UNCHANGED <<srvVars, _backend, _final_result_decoder, metadata,
                   peer, cfgVars>>
    /\ wait_locals_gone

done ==
    /\ pc = "idle"
    /\ _set_status_and_error_message(NoCalls)
    /\ out' = Returned("done", _status' = "DONE")
    /\ UNCHANGED <<srvVars, _backend, _final_result_decoder, metadata,
                   peer, cfgVars>>
    /\ wait_locals_gone

errored ==
    /\ pc = "idle"
    /\ _set_status_and_error_message(NoCalls)
    /\ out' = Returned("errored", _status' = "ERROR")
    /\ UNCHANGED <<srvVars, _backend, _final_result_decoder, metadata,
                   peer, cfgVars>>
    /\ wait_locals_gone

in_final_state ==
    /\ pc = "idle"
    /\ _set_status_and_error_message(NoCalls)
    /\ out' = Returned("in_final_state", _status' \in JOB_FINAL_STATES)
    /\ UNCHANGED <<srvVars, _backend, _final_result_decoder, metadata,
                   peer, cfgVars>>
    /\ wait_locals_gone

running ==
    /\ pc = "idle"
    /\ _set_status_and_error_message(NoCalls)
    /\ out' = Returned("running", _status' = "RUNNING")
    /\ UNCHANGED <<srvVars, _backend, _final_result_decoder, metadata,
                   peer, cfgVars>>
    /\ wait_locals_gone

\* the outcomes of the transport's job_cancel: the service accepts the request
\* while the job is not final, and the job then ends cancelled or, when the
\* service finalizes it concurrently, completed or failed; a final job is
\* rejected with 409; any request may fail otherwise (500)
job_cancel(status_code) ==
    \/ /\ status_code = 200
       /\ srvStatus \notin ServerFinal
       /\ \/ srvStatus' = "Cancelled" /\ srvReason' = NoReason /\ srvResult' = srvResult
          \/ srvStatus' = "Completed" /\ srvReason' = srvReason /\ srvResult' \in Payloads
          \/ srvStatus' = "Failed" /\ srvReason' \in ReasonCodes /\ srvResult' = srvResult
    \/ /\ status_code = Conflict
       /\ srvStatus \in ServerFinal
       /\ UNCHANGED <<srvStatus, srvReason, srvResult>>
    \/ /\ status_code = 500
       /\ UNCHANGED <<srvStatus, srvReason, srvResult>>

\* cancel() writing self._status whether or not job_cancel raised
cancel_outcome_always_writes(status_code) ==
    IF status_code # 200
    THEN [exc |-> IF status_code = Conflict THEN "RuntimeInvalidStateError"
                  ELSE "IBMRuntimeError",
          _status |-> "CANCELLED"]
    ELSE [exc |-> None, _status |-> "CANCELLED"]

\* cancel() leaving self._status for the next poll to set
cancel_outcome_awaits_poll(status_code) ==
    IF status_code # 200
    THEN [exc |-> IF status_code = Conflict THEN "RuntimeInvalidStateError"
                  ELSE "IBMRuntimeError",
          _status |-> _status]
    ELSE [exc |-> None, _status |-> _status]

\* cancel() without the test for status code 409
cancel_outcome_no_conflict(status_code) ==
    IF status_code # 200
    THEN [exc |-> "IBMRuntimeError", _status |-> _status]
    ELSE [exc |-> None, _status |-> "CANCELLED"]

\* cancel() once job_cancel was answered with status_code: the exception it
\* raises (None: it returns) and the value of self._status it leaves
cancel_outcome(status_code) ==
    IF status_code # 200
    THEN [exc |-> IF status_code = Conflict THEN "RuntimeInvalidStateError"
                  ELSE "IBMRuntimeError",
          _status |-> _status]
    ELSE [exc |-> None, _status |-> "CANCELLED"]

\* cancel() issuing job_cancel a second time when the first request failed
cancel_retries ==
    /\ pc = "idle"
    /\ \E status_code \in {200, Conflict, 500} :
        /\ job_cancel(status_code)
        /\ _status' = cancel_outcome(status_code)._status
        /\ out' = IF cancel_outcome(status_code).exc = None
                  THEN ReturnedNone("cancel")
                  ELSE Raised("cancel", cancel_outcome(status_code).exc)
        /\ calls' = [NoCalls EXCEPT !.cancel = IF status_code = 200 THEN 1 ELSE 2,
                                    !.status_code = status_code]
    /\ UNCHANGED <<srvCase, _reason_code, _error_message, _backend,
                   _final_result_decoder, metadata, peer, cfgVars>>
    /\ wait_locals_gone

cancel ==
    /\ pc = "idle"
    /\ \E status_code \in {200, Conflict, 500} :
        /\ job_cancel(status_code)
        /\ _status' = cancel_outcome(status_code)._status
        /\ out' = IF cancel_outcome(status_code).exc = None
                  THEN ReturnedNone("cancel")
                  ELSE Raised("cancel", cancel_outcome(status_code).exc)
        /\ calls' = [NoCalls EXCEPT !.cancel = 1, !.status_code = status_code]
    /\ UNCHANGED <<srvCase, _reason_code, _error_message, _backend,
                   _final_result_decoder, metadata, peer, cfgVars>>
    /\ wait_locals_gone

\* logs() without the test for status code 404
logs_outcome_no_not_found(status_code) ==
    IF status_code = 200 THEN Returned("logs", "log text")
    ELSE Raised("logs", "IBMRuntimeError")

\* logs() once job_logs was answered with status_code: the log text, the
\* empty string on 404, IBMRuntimeError on any other failure
logs_outcome(status_code) ==
    CASE status_code = 200      -> Returned("logs", "log text")
      [] status_code = NotFound -> Returned("logs", "")
      [] OTHER                  -> Raised("logs", "IBMRuntimeError")

\* the outcomes of the transport's job_logs: the log text, 404 when the
\* service has no logs for the job, or another failure (500)
logs ==
    /\ pc = "idle"
    /\ \E status_code \in {200, NotFound, 500} :
        /\ _set_status_and_error_message(
               [NoCalls EXCEPT !.logs = 1,
                               !.status_code = status_code,
                               !.warning = IF _status' \notin JOB_FINAL_STATES
                                           THEN 1 ELSE 0])
        /\ out' = logs_outcome(status_code)
    /\ UNCHANGED <<srvVars, _backend, _final_result_decoder, metadata,
                   peer, cfgVars>>
    /\ wait_locals_gone

(***************************************************************************)
(* wait_for_final_state and the methods that block in it.                  *)
(***************************************************************************)
\* entry of wait_for_final_state(timeout) on behalf of method op:
\* start_time = time.time(); status = self.status().  The first status call
\* takes lat units.  elapsed and sleeps are kept only for a timed wait; the
\* code never reads the elapsed time when timeout is None.  base is the calls
\* record of op when it enters the wait.
wait_begin(op, timeout, decoder, base) ==
    /\ _set_status_and_error_message(base)
    /\ \E lat \in 0..MaxLatency :
         elapsed' = IF timeout = NoTimeout THEN 0 ELSE lat
    /\ sleeps' = 0
    /\ pc' = "waiting"
    /\ call' = [op |-> op, timeout |-> timeout, decoder |-> decoder]
    /\ out' = Blocked(op)

\* the timeout test with > in place of >=
timed_out_strict == call.timeout # NoTimeout /\ elapsed > call.timeout

\* the timeout test at the top of the loop body
timed_out == call.timeout # NoTimeout /\ elapsed >= call.timeout

\* the loop sleeping without calling self.status() again
wait_poll_without_refresh ==
    /\ pc = "waiting"
    /\ _status \notin JOB_FINAL_STATES
    /\ ~timed_out
    /\ \E lat \in 0..MaxLatency :
         elapsed' = IF call.timeout = NoTimeout THEN elapsed
                    ELSE elapsed + PollInterval + lat
    /\ sleeps' = IF call.timeout = NoTimeout THEN sleeps ELSE sleeps + 1
    /\ UNCHANGED <<srvVars, jobVars, pc, call, out, calls, peer, cfgVars>>

\* one iteration of the loop that does not time out: time.sleep(0.1), then
\* status = self.status(), which takes lat units
wait_poll ==
    /\ pc = "waiting"
    /\ _status \notin JOB_FINAL_STATES
    /\ ~timed_out
    /\ _set_status_and_error_message(calls)
    /\ \E lat \in 0..MaxLatency :
         elapsed' = IF call.timeout = NoTimeout THEN elapsed
                    ELSE elapsed + PollInterval + lat
    /\ sleeps' = IF call.timeout = NoTimeout THEN sleeps ELSE sleeps + 1
    /\ UNCHANGED <<srvVars, _backend, _final_result_decoder, metadata, pc,
                   call, out, peer, cfgVars>>

\* the timeout recorded as a failure of the job
wait_timeout_marks_error ==
    /\ pc = "waiting"
    /\ _status \notin JOB_FINAL_STATES
    /\ timed_out
    /\ pc' = "idle"
    /\ _status' = "ERROR"
    /\ out' = Raised(call.op, "RuntimeJobTimeoutError")
    /\ UNCHANGED <<srvVars, _reason_code, _error_message, _backend,
                   _final_result_decoder, metadata, call, elapsed, sleeps,
                   calls, peer, cfgVars>>

\* the loop body raises RuntimeJobTimeoutError, which every caller propagates
wait_timeout ==
    /\ pc = "waiting"
    /\ _status \notin JOB_FINAL_STATES
    /\ timed_out
    /\ pc' = "idle"
    /\ out' = Raised(call.op, "RuntimeJobTimeoutError")
    /\ UNCHANGED <<srvVars, jobVars, call, elapsed, sleeps, calls, peer,
                   cfgVars>>

\* wait_for_final_state testing the timeout before the first status call
wait_for_final_state_timeout_first(timeout) ==
    /\ pc = "idle"
    /\ IF timeout = 0
       THEN /\ pc' = "idle"
            /\ call' = [op |-> "wait_for_final_state", timeout |-> timeout,
                        decoder |-> NoDecoder]
            /\ elapsed' = 0
            /\ sleeps' = 0
            /\ calls' = NoCalls
            /\ out' = Raised("wait_for_final_state", "RuntimeJobTimeoutError")
            /\ UNCHANGED <<_status, _reason_code, _error_message>>
       ELSE wait_begin("wait_for_final_state", timeout, NoDecoder, NoCalls)
    /\ UNCHANGED <<srvVars, _backend, _final_result_decoder, metadata,
                   peer, cfgVars>>

wait_for_final_state(timeout) ==
    /\ pc = "idle"
    /\ wait_begin("wait_for_final_state", timeout, NoDecoder, NoCalls)
    /\ UNCHANGED <<srvVars, _backend, _final_result_decoder, metadata,
                   peer, cfgVars>>

\* the loop ends on a final status and wait_for_final_state returns None
wait_return ==
    /\ pc = "waiting"
    /\ call.op = "wait_for_final_state"
    /\ _status \in JOB_FINAL_STATES
    /\ pc' = "idle"
    /\ out' = ReturnedNone("wait_for_final_state")
    /\ UNCHANGED <<srvVars, jobVars, call, elapsed, sleeps, calls, peer,
                   cfgVars>>

\* result() fetching the payload before it waits
result_fetch_first(timeout, decoder) ==
    /\ pc = "idle"
    /\ wait_begin("result", timeout, decoder, [NoCalls EXCEPT !.results = 1])
    /\ UNCHANGED <<srvVars, _backend, _final_result_decoder, metadata,
                   peer, cfgVars>>

\* result(timeout, decoder) up to the first status call of its wait: it makes
\* no transport call before it waits
result(timeout, decoder) ==
    /\ pc = "idle"
    /\ wait_begin("result", timeout, decoder, NoCalls)
    /\ UNCHANGED <<srvVars, _backend, _final_result_decoder, metadata,
                   peer, cfgVars>>

\* the decoder argument ignored
selected_decoder_bound_only(decoder) == _final_result_decoder

\* _decoder = decoder or self._final_result_decoder
selected_decoder(decoder) ==
    IF decoder # NoDecoder THEN decoder ELSE _final_result_decoder

\* the transport's job_results: the raw result payload of the remote job
job_results == srvResult

\* result() without the test for reason code 1305
result_after_wait_no_max_timeout(_decoder) ==
    IF _status = "ERROR"
    THEN [out |-> Raised("result", "RuntimeJobFailureError"),
          results |-> 0, decode |-> 0]
    ELSE IF _status = "CANCELLED"
    THEN [out |-> Raised("result", "RuntimeInvalidStateError"),
          results |-> 0, decode |-> 0]
    ELSE LET result_raw == srvResult
         IN  IF Truthy(result_raw)
             THEN [out |-> Returned("result", decode(_decoder, result_raw)),
                   results |-> 1, decode |-> 1]
             ELSE [out |-> ReturnedNone("result"),
                   results |-> 1, decode |-> 0]

\* result() fetching the payload before it looks at the final status
result_after_wait_fetching_first(_decoder) ==
    IF _status = "ERROR"
    THEN [out |-> Raised("result", IF _reason_code = MaxTimeReasonCode
                                   THEN "RuntimeJobMaxTimeoutError"
                                   ELSE "RuntimeJobFailureError"),
          results |-> 1, decode |-> 0]
    ELSE IF _status = "CANCELLED"
    THEN [out |-> Raised("result", "RuntimeInvalidStateError"),
          results |-> 1, decode |-> 0]
    ELSE LET result_raw == srvResult
         IN  IF Truthy(result_raw)
             THEN [out |-> Returned("result", decode(_decoder, result_raw)),
                   results |-> 1, decode |-> 1]
             ELSE [out |-> ReturnedNone("result"),
                   results |-> 1, decode |-> 0]

\* result() after its wait returned: its outcome, and the number of
\* job_results and decoder.decode calls it makes
result_after_wait(_decoder) ==
    IF _status = "ERROR"
    THEN [out |-> Raised("result", IF _reason_code = MaxTimeReasonCode
                                   THEN "RuntimeJobMaxTimeoutError"
                                   ELSE "RuntimeJobFailureError"),
          results |-> 0, decode |-> 0]
    ELSE IF _status = "CANCELLED"
    THEN [out |-> Raised("result", "RuntimeInvalidStateError"),
          results |-> 0, decode |-> 0]
    ELSE LET result_raw == job_results
         IN  IF Truthy(result_raw)
             THEN [out |-> Returned("result", decode(_decoder, result_raw)),
                   results |-> 1, decode |-> 1]
             ELSE [out |-> ReturnedNone("result"),
                   results |-> 1, decode |-> 0]

result_return ==
    /\ pc = "waiting"
    /\ call.op = "result"
    /\ _status \in JOB_FINAL_STATES
    /\ pc' = "idle"
    /\ LET r == result_after_wait(selected_decoder(call.decoder))
       IN  /\ out' = r.out
           /\ calls' = [calls EXCEPT !.results = @ + r.results,
                                     !.decode = @ + r.decode]
    /\ UNCHANGED <<srvVars, jobVars, call, elapsed, sleeps, peer, cfgVars>>

\* backend() without the test of self._backend: it always waits and fetches
backend_no_cache(timeout) ==
    /\ pc = "idle"
    /\ wait_begin("backend", timeout, NoDecoder, NoCalls)
    /\ UNCHANGED <<srvVars, _backend, _final_result_decoder, metadata,
                   peer, cfgVars>>

\* backend(timeout): returns the known backend, or starts the wait
backend(timeout) ==
    /\ pc = "idle"
    /\ IF _backend # None
       THEN /\ out' = Returned("backend", _backend)
            /\ calls' = NoCalls
            /\ wait_locals_gone
            /\ UNCHANGED <<_status, _reason_code, _error_message>>
       ELSE wait_begin("backend", timeout, NoDecoder, NoCalls)
    /\ UNCHANGED <<srvVars, _backend, _final_result_decoder, metadata,
                   peer, cfgVars>>

\* the outcomes of the transport's job_get in backend(): the job metadata,
\* with the backend name once the service reports it, or a failure
\* (RequestsApiError, ok = FALSE)
job_get_outcomes ==
    {[ok |-> TRUE, backend |-> None], [ok |-> TRUE, backend |-> "ibm_x"],
     [ok |-> FALSE, backend |-> None]}

\* backend() caching a placeholder when job_get fails
backend_return_caching_failure ==
    /\ pc = "waiting"
    /\ call.op = "backend"
    /\ _status \in JOB_FINAL_STATES
    /\ pc' = "idle"
    /\ calls' = [calls EXCEPT !.job_get = @ + 1]
    /\ \E raw_data \in job_get_outcomes :
        IF ~raw_data.ok
        THEN /\ out' = Raised("backend", "IBMRuntimeError")
             /\ _backend' = "Backend(unknown)"
        ELSE /\ _backend' = IF raw_data.backend # None
                            THEN service_backend(raw_data.backend)
                            ELSE _backend
             /\ out' = Returned("backend", _backend')
    /\ UNCHANGED <<srvVars, _status, _reason_code, _error_message,
                   _final_result_decoder, metadata, call, elapsed, sleeps,
                   peer, cfgVars>>

\* backend() after its wait returned: job_get, which may fail, and the
\* resolution of the reported backend name through the service
backend_return ==
    /\ pc = "waiting"
    /\ call.op = "backend"
    /\ _status \in JOB_FINAL_STATES
    /\ pc' = "idle"
    /\ calls' = [calls EXCEPT !.job_get = @ + 1]
    /\ \E raw_data \in job_get_outcomes :
        IF ~raw_data.ok
        THEN /\ out' = Raised("backend", "IBMRuntimeError")
             /\ _backend' = _backend
        ELSE /\ _backend' = IF raw_data.backend # None
                            THEN service_backend(raw_data.backend)
                            ELSE _backend
             /\ out' = Returned("backend", _backend')
    /\ UNCHANGED <<srvVars, _status, _reason_code, _error_message,
                   _final_result_decoder, metadata, call, elapsed, sleeps,
                   peer, cfgVars>>

(***************************************************************************)
(* The specification.                                                      *)
(***************************************************************************)
Next ==
    \/ ServerAdvance
    \/ ServerComplete
    \/ ServerFail
    \/ ServerCancel
    \/ status
    \/ cancelled
    \/ done
    \/ errored
    \/ in_final_state
    \/ running
    \/ cancel
    \/ logs
    \/ \E timeout \in Timeouts : wait_for_final_state(timeout)
    \/ wait_poll
    \/ wait_timeout
    \/ wait_return
    \/ \E timeout \in Timeouts, decoder \in Decoders \cup {NoDecoder} :
         result(timeout, decoder)
    \/ result_return
    \/ \E timeout \in Timeouts : backend(timeout)
    \/ backend_return

Spec == Init /\ [][Next]_vars

(***************************************************************************)
(* Two Job objects bound to the same remote job, both polling it and        *)
(* neither cancelling it.                                                   *)
(***************************************************************************)
\* the second Job object after one status refresh: as
\* _set_status_and_error_message, on the fields of the second object
peer_refreshed ==
    IF peer._status \in JOB_FINAL_STATES
    THEN peer
    ELSE LET response == Response(Wire(srvStatus, srvCase))
             reason_code == IF response.state.reason_code # NoReason
                            THEN response.state.reason_code
                            ELSE peer._reason_code
         IN  [_status |-> _status_from_job_response(response, reason_code),
              _reason_code |-> reason_code]

\* status() of the second object writing the cache of the first one too
peer_status_shared_cache ==
    /\ peer' = peer_refreshed
    /\ _status' = peer'._status
    /\ _reason_code' = peer'._reason_code
    /\ UNCHANGED <<srvVars, _error_message, _backend,
                   _final_result_decoder, metadata,
                   waitVars, calls, out, cfgVars>>

\* status() called on the second Job object
peer_status ==
    /\ peer' = peer_refreshed
    /\ UNCHANGED <<srvVars, jobVars, waitVars, calls, out, cfgVars>>

NextShared ==
    \/ ServerAdvance
    \/ ServerComplete
    \/ ServerFail
    \/ ServerCancel
    \/ status
    \/ peer_status

SpecShared == Init /\ [][NextShared]_vars

(***************************************************************************)
(* One caller that only waits.  The loop of wait_for_final_state runs in   *)
(* the calling thread with nothing to block it but the sleep and the       *)
(* status round trip, both of which end: an iteration that is possible is  *)
(* eventually taken, and so is the return.                                 *)
(***************************************************************************)
InitWait ==
    /\ Init
    /\ _backend = None
    /\ _final_result_decoder = "ResultDecoder"

NextWait ==
    \/ ServerAdvance
    \/ ServerComplete
    \/ ServerFail
    \/ ServerCancel
    \/ \E timeout \in Timeouts : wait_for_final_state(timeout)
    \/ wait_poll
    \/ wait_timeout
    \/ wait_return

SpecWait ==
    /\ InitWait
    /\ [][NextWait]_vars
    /\ WF_vars(wait_poll)
    /\ WF_vars(wait_return)


(***************************************************************************)
(* Backend configuration (models/backend_configuration.py).                *)
(*                                                                         *)
(* Python floats are IEEE-754 binary64.  A positive normal float is the    *)
(* record [m, e] standing for m * 2^(e - 52), where m is the 53-bit        *)
(* significand written as five little-endian limbs of 13 bits (the fifth   *)
(* limb is the leading 1) and e is the exponent that float.hex() prints.   *)
(***************************************************************************)
Limb == 8192
HalfLimb == Limb \div 2

\* Column k of the schoolbook product of two five-limb significands.
RECURSIVE f64_column(_, _, _, _)
f64_column(a, b, k, i) ==
    IF i > 5 THEN 0
    ELSE (IF k + 1 - i \in 1..5 THEN a[i] * b[k + 1 - i] ELSE 0)
         + f64_column(a, b, k, i + 1)

\* The ten limbs of the exact product, carries propagated.
RECURSIVE f64_carry(_, _, _, _)
f64_carry(a, b, k, carry) ==
    IF k > 9 THEN <<carry>>
    ELSE LET t == f64_column(a, b, k, 1) + carry
         IN  <<t % Limb>> \o f64_carry(a, b, k + 1, t \div Limb)

\* m + 1 on five limbs; the fifth limb may reach 2.
RECURSIVE f64_increment(_, _)
f64_increment(m, i) ==
    IF i = 5 THEN [m EXCEPT ![5] = m[5] + 1]
    ELSE IF m[i] + 1 < Limb THEN [m EXCEPT ![i] = m[i] + 1]
         ELSE f64_increment([m EXCEPT ![i] = 0], i + 1)

\* Renormalise a significand that rounding carried up to 2^53.
f64_normal(m, e) ==
    IF m[5] = 2 THEN [m |-> <<0, 0, 0, 0, 1>>, e |-> e + 1]
    ELSE [m |-> m, e |-> e]

\* A product rounded towards +infinity instead of to nearest.
f64_mul_rounding_up(x, y) ==
    LET p == f64_carry(x.m, y.m, 1, 0)
        low_zero == p[1] = 0 /\ p[2] = 0 /\ p[3] = 0 /\ p[4] = 0
    IN  IF p[9] = 1
        THEN LET m == <<p[5], p[6], p[7], p[8], 1>>
             IN  IF ~low_zero THEN f64_normal(f64_increment(m, 1), x.e + y.e)
                 ELSE [m |-> m, e |-> x.e + y.e]
        ELSE LET m == [i \in 1..5 |->
                          IF i = 5 THEN 1
                          ELSE p[i + 4] \div 2 + (p[i + 5] % 2) * HalfLimb]
             IN  IF ~low_zero \/ p[5] % 2 = 1
                 THEN f64_normal(f64_increment(m, 1), x.e + y.e + 1)
                 ELSE [m |-> m, e |-> x.e + y.e + 1]

\* x * y, rounded to nearest, ties to even (the float product of CPython).
f64_mul(x, y) ==
    LET p == f64_carry(x.m, y.m, 1, 0)
        low_zero == p[1] = 0 /\ p[2] = 0 /\ p[3] = 0
    IN  IF p[9] = 1
        THEN \* product in [2^104, 2^105): drop 52 bits
             LET m == <<p[5], p[6], p[7], p[8], 1>>
                 up == \/ p[4] > HalfLimb
                       \/ p[4] = HalfLimb /\ ~low_zero
                       \/ p[4] = HalfLimb /\ low_zero /\ p[5] % 2 = 1
             IN  IF up THEN f64_normal(f64_increment(m, 1), x.e + y.e)
                 ELSE [m |-> m, e |-> x.e + y.e]
        ELSE \* product in [2^105, 2^106): drop 53 bits
             LET m == [i \in 1..5 |->
                          IF i = 5 THEN 1
                          ELSE p[i + 4] \div 2 + (p[i + 5] % 2) * HalfLimb]
                 rest_zero == low_zero /\ p[4] = 0
                 up == /\ p[5] % 2 = 1
                       /\ (~rest_zero \/ m[1] % 2 = 1)
             IN  IF up THEN f64_normal(f64_increment(m, 1), x.e + y.e + 1)
                 ELSE [m |-> m, e |-> x.e + y.e + 1]

\* The float literals of the module and of the inputs, from float.hex().
f64_1e9 == [m |-> <<0, 0, 6464, 7066, 1>>, e |-> 29]
f64_1e_9 == [m |-> <<5781, 310, 762, 604, 1>>, e |-> -30]
f64_1e6 == [m |-> <<0, 0, 0, 7433, 1>>, e |-> 19]
f64_1e_6 == [m |-> <<3469, 1455, 7656, 397, 1>>, e |-> -20]
f64_0_222 == [m |-> <<721, 3801, 8126, 6356, 1>>, e |-> -3]
f64_0_1 == [m |-> <<6554, 3276, 1638, 4915, 1>>, e |-> -4]
f64_0_3 == [m |-> <<4915, 6553, 3276, 1638, 1>>, e |-> -2]
f64_4_5 == [m |-> <<0, 0, 0, 1024, 1>>, e |-> 2]
f64_5_5 == [m |-> <<0, 0, 0, 3072, 1>>, e |-> 2]
f64_7_5 == [m |-> <<0, 0, 0, 7168, 1>>, e |-> 2]
f64_1000 == [m |-> <<0, 0, 0, 7808, 1>>, e |-> 9]


\* [_r * factor for _r in values]
scale_list(values, factor) ==
    [i \in DOMAIN values |-> f64_mul(values[i], factor)]

\* [[min_range * factor, max_range * factor] for (min_range, max_range) in ranges]
scale_ranges(ranges, factor) ==
    [i \in DOMAIN ranges |->
        <<f64_mul(ranges[i][1], factor), f64_mul(ranges[i][2], factor)>>]

\* isinstance(v, numbers.Number) for a value of hamiltonian["vars"]: a float is
\* a binary64 record, any other value is kept as a record [str |-> text].
is_number(v) == "m" \in DOMAIN v

\* {k: v * factor if isinstance(v, numbers.Number) else v for k, v in hamiltonian["vars"].items()}
scale_vars(h_vars, factor) ==
    [k \in DOMAIN h_vars |->
        IF is_number(h_vars[k]) THEN f64_mul(h_vars[k], factor) ELSE h_vars[k]]

(***************************************************************************)
(* Python values.  A dict with string keys is a function on a set of       *)
(* strings; a keyword argument that is absent (or None) is a key outside   *)
(* the domain.  A call returns Ok(value) or raises Err(exception).         *)
(***************************************************************************)
Ok(value) == [exc |-> None, val |-> value]
Err(exception) == [exc |-> exception]

EmptyDict == <<>>
\* d with d[k] = v
dict_set(d, k, v) == (k :> v) @@ d
\* d.update(e)
dict_update(d, e) == e @@ d
\* d restricted to the keys ks
dict_only(d, ks) == [k \in DOMAIN d \cap ks |-> d[k]]
\* defaultdict(list): d[k].append(v)
dict_append(d, k, v) ==
    IF k \in DOMAIN d THEN [d EXCEPT ![k] = Append(@, v)]
    ELSE dict_set(d, k, <<v>>)
\* defaultdict(list): d[k].extend(vs)
dict_extend(d, k, vs) ==
    IF k \in DOMAIN d THEN [d EXCEPT ![k] = @ \o vs]
    ELSE dict_set(d, k, vs)

\* The members of a list, as in `x in list`.
Members(list) == {list[i] : i \in DOMAIN list}

(***************************************************************************)
(* GateConfig                                                              *)
(***************************************************************************)
GateConfig_required == {"name", "parameters", "qasm_def"}
GateConfig_parameters ==
    GateConfig_required
        \cup {"coupling_map", "latency_map", "conditional", "description"}

\* GateConfig.from_dict(data) == cls(**data): the attributes of the object.
GateConfig_from_dict(data) ==
    IF ~(GateConfig_required \subseteq DOMAIN data)
           \/ ~(DOMAIN data \subseteq GateConfig_parameters)
    THEN Err("TypeError")
    ELSE Ok([k \in {k \in DOMAIN data :
                       k \in {"coupling_map", "latency_map"} => data[k] # <<>>}
                |-> data[k]])

\* GateConfig.to_dict(): every attribute the object has.
GateConfig_to_dict(gate) == gate

(***************************************************************************)
(* UchannelLO                                                              *)
(***************************************************************************)
\* UchannelLO.from_dict(data) == cls(**data)
UchannelLO_from_dict(data) ==
    IF DOMAIN data # {"q", "scale"} THEN Err("TypeError")
    ELSE IF data.q < 0 THEN Err("QiskitError")
    ELSE Ok([q |-> data.q, scale |-> data.scale])

UchannelLO_to_dict(u) == [q |-> u.q, scale |-> u.scale]

\* The first exception a list of call results raises, None if none does.
first_exc(results) ==
    IF \A i \in DOMAIN results : results[i].exc = None THEN None
    ELSE results[CHOOSE i \in DOMAIN results :
                    /\ results[i].exc # None
                    /\ \A j \in 1..(i - 1) : results[j].exc = None].exc

(***************************************************************************)
(* Pulse channels (qiskit.pulse.channels): a channel is its class and its  *)
(* index; the class attribute `prefix` is one lower-case letter.           *)
(***************************************************************************)
DriveChannel(index) == [kind |-> "DriveChannel", index |-> index]
MeasureChannel(index) == [kind |-> "MeasureChannel", index |-> index]
AcquireChannel(index) == [kind |-> "AcquireChannel", index |-> index]
ControlChannel(index) == [kind |-> "ControlChannel", index |-> index]

DriveChannel_prefix == <<"d">>
ControlChannel_prefix == <<"u">>
MeasureChannel_prefix == <<"m">>

\* Strings the code inspects are sequences of one-character strings.
LowerCase ==
    {"a", "b", "c", "d", "e", "f", "g", "h", "i", "j", "k", "l", "m",
     "n", "o", "p", "q", "r", "s", "t", "u", "v", "w", "x", "y", "z"}
DigitChars == <<"0", "1", "2", "3", "4", "5", "6", "7", "8", "9">>
Digits == Members(DigitChars)
digit_value(c) == (CHOOSE i \in DOMAIN DigitChars : DigitChars[i] = c) - 1

\* Length of the longest run of characters of class `chars` from position i.
RECURSIVE span(_, _, _)
span(s, i, chars) ==
    IF i <= Len(s) /\ s[i] \in chars THEN 1 + span(s, i + 1, chars) ELSE 0

\* int(digits)
RECURSIVE int(_)
int(digits) ==
    IF digits = <<>> THEN 0
    ELSE 10 * int(SubSeq(digits, 1, Len(digits) - 1))
         + digit_value(digits[Len(digits)])

\* re.match(r"(?P<channel>[a-z]+)(?P<index>[0-9]+)", channel): the pattern is
\* matched at the start of the name; what follows the digits is not looked at.
\* No match gives None, whose .group raises AttributeError.
_get_channel_prefix_index(channel) ==
    LET p == span(channel, 1, LowerCase)
        d == span(channel, p + 1, Digits)
    IN  IF p = 0 \/ d = 0
        THEN Err("BackendConfigurationError")
        ELSE Ok(<<SubSeq(channel, 1, p), int(SubSeq(channel, p + 1, p + d))>>)

\* channels_dict of _parse_channels: prefix -> channel class.
channels_dict ==
    (DriveChannel_prefix :> "DriveChannel")
        @@ (ControlChannel_prefix :> "ControlChannel")
        @@ (MeasureChannel_prefix :> "MeasureChannel")
        @@ (<<"a", "c", "q", "u", "i", "r", "e">> :> "AcquireChannel")

NoIndices ==
    [_qubit_channel_map |-> EmptyDict, _channel_qubit_map |-> EmptyDict,
     _control_channels |-> EmptyDict]

\* One pass of the loop of _parse_channels as written: the class is looked up
\* (KeyError for an unknown prefix) before the guard on the prefix.
_parse_channel(indices, channel, channel_config) ==
    LET parsed == _get_channel_prefix_index(channel)
    IN  IF parsed.exc # None THEN parsed
        ELSE IF parsed.val[1] \notin DOMAIN channels_dict THEN Err("KeyError")
        ELSE LET channel_prefix == parsed.val[1]
                 ch == [kind |-> channels_dict[channel_prefix],
                        index |-> parsed.val[2]]
                 qubits == channel_config.operates.qubits
             IN  Ok([_qubit_channel_map |->
                         dict_append(indices._qubit_channel_map, qubits, ch),
                     _channel_qubit_map |->
                         dict_extend(indices._channel_qubit_map, ch, qubits),
                     _control_channels |->
                         IF channel_prefix = ControlChannel_prefix
                         THEN dict_append(indices._control_channels, qubits, ch)
                         ELSE indices._control_channels])

\* _parse_channels(channels): `channels` is the dict in insertion order, a
\* list of <<name, config>>; the loop over the entries from position i on.
RECURSIVE _parse_channels_from(_, _, _)
_parse_channels_from(channels, i, indices) ==
    IF i > Len(channels) THEN Ok(indices)
    ELSE LET step == _parse_channel(indices, channels[i][1], channels[i][2])
         IN  IF step.exc # None THEN step
             ELSE _parse_channels_from(channels, i + 1, step.val)

_parse_channels(channels) == _parse_channels_from(channels, 1, NoIndices)


(***************************************************************************)
(* QasmBackendConfiguration.  An object is its class, its instance         *)
(* attributes `attrs` and its dict `_data`.                                *)
(***************************************************************************)
Qasm_required ==
    {"backend_name", "backend_version", "n_qubits", "basis_gates", "gates",
     "local", "simulator", "conditional", "open_pulse", "memory", "max_shots",
     "coupling_map"}
Qasm_optional ==
    {"supported_instructions", "dynamic_reprate_enabled", "rep_delay_range",
     "default_rep_delay", "max_experiments", "sample_name", "n_registers",
     "register_map", "configurable", "credits_required", "online_date",
     "display_name", "description", "tags", "dt", "dtm", "processor_type",
     "parametric_pulses"}

\* `if value:` for the parameters the constructor tests that way: the
\* integers are false when 0, the lists when empty.
truthy(k, value) ==
    IF k \in {"max_experiments", "n_registers"} THEN value # 0
    ELSE value # <<>>
Qasm_stored_if_truthy ==
    {"supported_instructions", "rep_delay_range", "max_experiments",
     "n_registers", "register_map"}

\* The names of the attributes QasmBackendConfiguration.__init__ sets.
Qasm_stored(args) ==
    Qasm_required \cup {"dynamic_reprate_enabled"}
        \cup {k \in DOMAIN args \cap Qasm_optional :
                 k \in Qasm_stored_if_truthy => truthy(k, args[k])}

\* The value QasmBackendConfiguration.__init__ stores in attribute k.
Qasm_attribute(args, k) ==
    CASE k = "dynamic_reprate_enabled" ->
             IF k \in DOMAIN args THEN args[k] ELSE FALSE
      [] k = "rep_delay_range" -> scale_list(args[k], f64_1e_6)
      [] k = "default_rep_delay" -> f64_mul(args[k], f64_1e_6)
      [] k = "n_registers" -> 1
      [] k \in {"dt", "dtm"} -> f64_mul(args[k], f64_1e_9)
      [] OTHER -> args[k]

\* The value QasmBackendConfiguration.__init__ stores in _data for kwarg k.
Qasm_kwarg(kwargs, k) ==
    CASE k \in {"qubit_lo_range", "meas_lo_range"} ->
             scale_ranges(kwargs[k], f64_1e9)
      [] k = "rep_times" -> scale_list(kwargs[k], f64_1e_6)
      [] OTHER -> kwargs[k]

\* QasmBackendConfiguration.__init__(**args) on an object of class cls whose
\* subclass constructor has already set the attributes `self`.
Qasm__init__(cls, self, args) ==
    IF ~(Qasm_required \subseteq DOMAIN args) THEN Err("TypeError")
    ELSE Ok([built |-> TRUE,
             cls |-> cls,
             attrs |-> dict_update(self, [k \in Qasm_stored(args) |->
                                             Qasm_attribute(args, k)]),
             _data |-> [k \in DOMAIN args \ (Qasm_required \cup Qasm_optional)
                           |-> Qasm_kwarg(args, k)]])

\* hasattr(self, k) and getattr(self, k): instance attributes first, then
\* __getattr__, which reads _data.
hasattr(self, k) == k \in DOMAIN self.attrs \cup DOMAIN self._data
getattr(self, k) ==
    IF k \in DOMAIN self.attrs THEN self.attrs[k] ELSE self._data[k]

\* QasmBackendConfiguration.from_dict(data)
Qasm_from_dict(data) ==
    IF "gates" \notin DOMAIN data THEN Err("KeyError")
    ELSE LET gates == [i \in DOMAIN data.gates |->
                          GateConfig_from_dict(data.gates[i])]
         IN  IF first_exc(gates) # None THEN Err(first_exc(gates))
             ELSE Qasm__init__("Qasm", EmptyDict,
                      dict_set(data, "gates",
                               [i \in DOMAIN gates |-> gates[i].val]))

Qasm_echoed ==
    {"supported_instructions", "rep_delay_range", "default_rep_delay",
     "max_experiments", "sample_name", "n_registers", "register_map",
     "configurable", "credits_required", "online_date", "display_name",
     "description", "tags", "dt", "dtm", "processor_type",
     "parametric_pulses"}

\* QasmBackendConfiguration.to_dict()
Qasm_to_dict(self) ==
    LET fixed == Qasm_required \cup {"dynamic_reprate_enabled"}
        listed == [k \in fixed \cup {k \in Qasm_echoed : hasattr(self, k)} |->
                     CASE k = "gates" ->
                              [i \in DOMAIN self.attrs.gates |->
                                  GateConfig_to_dict(self.attrs.gates[i])]
                       [] k = "rep_delay_range" ->
                              scale_list(getattr(self, k), f64_1e6)
                       [] k = "default_rep_delay" ->
                              f64_mul(getattr(self, k), f64_1e6)
                       [] OTHER -> getattr(self, k)]
        out_dict == dict_update(listed, self._data)
    IN  [k \in DOMAIN out_dict |->
            CASE k \in {"dt", "dtm"} -> f64_mul(out_dict[k], f64_1e9)
              [] k \in {"qubit_lo_range", "meas_lo_range"} ->
                     scale_ranges(out_dict[k], f64_1e_9)
              [] OTHER -> out_dict[k]]

(***************************************************************************)
(* PulseBackendConfiguration.  The attribute hamiltonian is <<>> for None   *)
(* and <<h>> for the dict h.                                               *)
(***************************************************************************)
Pulse_required ==
    Qasm_required
        \cup {"n_uchannels", "u_channel_lo", "meas_levels", "qubit_lo_range",
              "meas_lo_range", "dt", "dtm", "rep_times", "meas_kernels",
              "discriminators"}
Pulse_forwarded ==
    Qasm_required
        \cup {"max_experiments", "sample_name", "n_registers", "register_map",
              "configurable", "credits_required", "online_date",
              "display_name", "description", "tags"}
Pulse_optional ==
    (Pulse_forwarded \ Qasm_required)
        \cup {"hamiltonian", "channel_bandwidth", "acquisition_latency",
              "conditional_latency", "meas_map", "channels"}

\* The control-channel index kept as the defaultdict(list) it is built in.
Pulse_channel_attributes_defaultdict(args, indices) ==
    IF "channels" \in DOMAIN args
    THEN [channels |-> args.channels,
          _qubit_channel_map |-> indices._qubit_channel_map,
          _channel_qubit_map |-> indices._channel_qubit_map,
          _control_channels |-> [default_factory |-> "list",
                                 items |-> indices._control_channels]]
    ELSE [_control_channels |-> [default_factory |-> "list",
                                 items |-> EmptyDict]]

\* The channel attributes PulseBackendConfiguration.__init__ sets: the map and
\* its three indices as plain dicts, or only a defaultdict(list) of control
\* channels when no map is given.
Pulse_channel_attributes(args, indices) ==
    IF "channels" \in DOMAIN args
    THEN [channels |-> args.channels,
          _qubit_channel_map |-> indices._qubit_channel_map,
          _channel_qubit_map |-> indices._channel_qubit_map,
          _control_channels |-> [default_factory |-> None,
                                 items |-> indices._control_channels]]
    ELSE [_control_channels |-> [default_factory |-> "list",
                                 items |-> EmptyDict]]

\* PulseBackendConfiguration.__init__(**args)
Pulse__init__(args) ==
    IF ~(Pulse_required \subseteq DOMAIN args) THEN Err("TypeError")
    ELSE LET parsed == IF "channels" \in DOMAIN args
                       THEN _parse_channels(args.channels)
                       ELSE Ok(NoIndices)
             kwargs == DOMAIN args \ (Pulse_required \cup Pulse_optional)
         IN  IF parsed.exc # None THEN parsed
             ELSE Qasm__init__("Pulse",
                      [n_uchannels |-> args.n_uchannels,
                       u_channel_lo |-> args.u_channel_lo,
                       meas_levels |-> args.meas_levels,
                       qubit_lo_range |->
                           scale_ranges(args.qubit_lo_range, f64_1e9),
                       meas_lo_range |->
                           scale_ranges(args.meas_lo_range, f64_1e9),
                       meas_kernels |-> args.meas_kernels,
                       discriminators |-> args.discriminators,
                       hamiltonian |->
                           IF "hamiltonian" \in DOMAIN args
                           THEN <<[args.hamiltonian EXCEPT
                                      !.vars = scale_vars(@, f64_1e9)]>>
                           ELSE <<>>,
                       rep_times |-> scale_list(args.rep_times, f64_1e_6),
                       dt |-> f64_mul(args.dt, f64_1e_9),
                       dtm |-> f64_mul(args.dtm, f64_1e_9)]
                          @@ Pulse_channel_attributes(args, parsed.val)
                          @@ (IF "channel_bandwidth" \in DOMAIN args
                              THEN [channel_bandwidth |->
                                       scale_ranges(args.channel_bandwidth,
                                                    f64_1e9)]
                              ELSE EmptyDict)
                          @@ dict_only(args, {"acquisition_latency",
                                              "conditional_latency",
                                              "meas_map"}),
                      dict_only(args, Pulse_forwarded \cup kwargs))

\* PulseBackendConfiguration.from_dict(data)
Pulse_from_dict(data) ==
    IF "gates" \notin DOMAIN data THEN Err("KeyError")
    ELSE LET gates == [i \in DOMAIN data.gates |->
                          GateConfig_from_dict(data.gates[i])]
         IN  IF first_exc(gates) # None THEN Err(first_exc(gates))
             ELSE IF "u_channel_lo" \notin DOMAIN data THEN Err("KeyError")
             ELSE LET input_uchannels == data.u_channel_lo
                      u_channels ==
                          [i \in DOMAIN input_uchannels |->
                              [j \in DOMAIN input_uchannels[i] |->
                                  UchannelLO_from_dict(input_uchannels[i][j])]]
                      raised == [i \in DOMAIN u_channels |->
                                    Err(first_exc(u_channels[i]))]
                  IN  IF first_exc(raised) # None THEN Err(first_exc(raised))
                      ELSE Pulse__init__(
                               dict_update(data,
                                   [gates |-> [i \in DOMAIN gates |->
                                                  gates[i].val],
                                    u_channel_lo |->
                                        [i \in DOMAIN u_channels |->
                                            [j \in DOMAIN u_channels[i] |->
                                                u_channels[i][j].val]]]))

\* PulseBackendConfiguration.to_dict().  No key "channels" can be in the dict
\* that the base class returns (channels is a named parameter, never a kwarg),
\* so the three pops under that test never run.
Pulse_to_dict(self) ==
    LET a == self.attrs
        updated ==
            dict_update(Qasm_to_dict(self),
                [n_uchannels |-> a.n_uchannels,
                 u_channel_lo |->
                     [i \in DOMAIN a.u_channel_lo |->
                         [j \in DOMAIN a.u_channel_lo[i] |->
                             UchannelLO_to_dict(a.u_channel_lo[i][j])]],
                 meas_levels |-> a.meas_levels,
                 qubit_lo_range |-> a.qubit_lo_range,
                 meas_lo_range |-> a.meas_lo_range,
                 meas_kernels |-> a.meas_kernels,
                 discriminators |-> a.discriminators,
                 rep_times |-> a.rep_times,
                 dt |-> a.dt,
                 dtm |-> a.dtm])
        out_dict ==
            dict_update(updated,
                [k \in {k \in {"channel_bandwidth", "meas_map",
                               "acquisition_latency", "conditional_latency",
                               "channels"} : hasattr(self, k)} |->
                    getattr(self, k)])
        converted ==
            [k \in DOMAIN out_dict |->
                CASE k \in {"qubit_lo_range", "meas_lo_range"} ->
                         IF a[k] # <<>> THEN scale_ranges(a[k], f64_1e_9)
                         ELSE out_dict[k]
                  [] k = "rep_times" ->
                         IF a.rep_times # <<>>
                         THEN scale_list(a.rep_times, f64_1e6)
                         ELSE out_dict[k]
                  [] k \in {"dt", "dtm"} -> f64_mul(out_dict[k], f64_1e9)
                  [] k = "channel_bandwidth" ->
                         scale_ranges(a.channel_bandwidth, f64_1e_9)
                  [] OTHER -> out_dict[k]]
    IN  IF a.hamiltonian # <<>>
        THEN dict_set(converted, "hamiltonian",
                 [a.hamiltonian[1] EXCEPT !.vars = scale_vars(@, f64_1e_9)])
        ELSE converted


(***************************************************************************)
(* Lookups of PulseBackendConfiguration.  Each gives the result of the     *)
(* call; control also gives the object as the call leaves it.              *)
(***************************************************************************)
\* The bound test with the upper end included.
qubit_in_system_inclusive(self, qubit) ==
    0 <= qubit /\ qubit <= self.attrs.n_qubits

\* 0 <= qubit < self.n_qubits
qubit_in_system(self, qubit) == 0 <= qubit /\ qubit < self.attrs.n_qubits

drive_result(self, qubit) ==
    IF ~qubit_in_system(self, qubit) THEN Err("BackendConfigurationError")
    ELSE Ok(DriveChannel(qubit))

measure_result(self, qubit) ==
    IF ~qubit_in_system(self, qubit) THEN Err("BackendConfigurationError")
    ELSE Ok(MeasureChannel(qubit))

acquire_result(self, qubit) ==
    IF ~qubit_in_system(self, qubit) THEN Err("BackendConfigurationError")
    ELSE Ok(AcquireChannel(qubit))

\* An argument that is a tuple or a list of qubits, or one qubit (an int).
Tuple(items) == [type |-> "tuple", items |-> items]
List(items) == [type |-> "list", items |-> items]
Scalar(qubit) == [type |-> "int", items |-> <<qubit>>]

\* self._control_channels[qubits] on a dict, or on a defaultdict(list), which
\* stores and returns a new empty list for a key it does not have.
control_result(self, qubits) ==
    IF ~hasattr(self, "_control_channels")
    THEN [result |-> Err("BackendConfigurationError"), self |-> self]
    ELSE LET _control_channels == self.attrs._control_channels
             key == qubits.items
         IN  IF key \in DOMAIN _control_channels.items
             THEN [result |-> Ok(_control_channels.items[key]), self |-> self]
             ELSE IF _control_channels.default_factory = "list"
             THEN [result |-> Ok(<<>>),
                   self |-> [self EXCEPT !.attrs._control_channels.items =
                                             dict_set(@, key, <<>>)]]
             ELSE [result |-> Err("BackendConfigurationError"), self |-> self]

\* self._channel_qubit_map[channel]
get_channel_qubits_result(self, channel) ==
    IF ~hasattr(self, "_channel_qubit_map")
    THEN Err("BackendConfigurationError")
    ELSE IF channel \notin DOMAIN self.attrs._channel_qubit_map
    THEN Err("BackendConfigurationError")
    ELSE Ok(self.attrs._channel_qubit_map[channel])

\* A scalar qubit looked up like a tuple: only the entries for exactly (qubit,).
get_qubit_channels_result_exact(self, qubit) ==
    IF ~hasattr(self, "_qubit_channel_map")
    THEN Err("BackendConfigurationError")
    ELSE LET _qubit_channel_map == self.attrs._qubit_channel_map
         IN  IF qubit.items \notin DOMAIN _qubit_channel_map
             THEN Err("BackendConfigurationError")
             ELSE Ok(Members(_qubit_channel_map[qubit.items]))

\* get_qubit_channels: the channels are collected in a set, and the list made
\* of the set has no defined order: the result is that set.
get_qubit_channels_result(self, qubit) ==
    IF ~hasattr(self, "_qubit_channel_map")
    THEN Err("BackendConfigurationError")
    ELSE LET _qubit_channel_map == self.attrs._qubit_channel_map
         IN  IF qubit.type = "int"
             THEN LET channels ==
                          UNION {Members(_qubit_channel_map[key]) :
                                    key \in {key \in DOMAIN _qubit_channel_map :
                                                qubit.items[1] \in Members(key)}}
                  IN  IF channels = {} THEN Err("BackendConfigurationError")
                      ELSE Ok(channels)
             ELSE IF qubit.items \notin DOMAIN _qubit_channel_map
             THEN Err("BackendConfigurationError")
             ELSE Ok(Members(_qubit_channel_map[qubit.items]))

\* describe with no test of the class of the channel.
describe_result_any_channel(self, channel) ==
    IF channel.index + 1 \notin DOMAIN self.attrs.u_channel_lo
    THEN Err("IndexError")
    ELSE LET u_chan_lo == self.attrs.u_channel_lo[channel.index + 1]
         IN  Ok([d \in {DriveChannel(u_chan_lo[i].q) : i \in DOMAIN u_chan_lo}
                    |-> u_chan_lo[CHOOSE i \in DOMAIN u_chan_lo :
                                      u_chan_lo[i].q = d.index].scale])

\* describe: {DriveChannel(u.q): u.scale for u in self.u_channel_lo[index]},
\* a later entry for the same qubit replacing an earlier one.
describe_result(self, channel) ==
    IF channel.kind # "ControlChannel" THEN Err("BackendConfigurationError")
    ELSE IF channel.index + 1 \notin DOMAIN self.attrs.u_channel_lo
    THEN Err("IndexError")
    ELSE LET u_chan_lo == self.attrs.u_channel_lo[channel.index + 1]
             last(q) == CHOOSE i \in DOMAIN u_chan_lo :
                            /\ u_chan_lo[i].q = q
                            /\ \A j \in DOMAIN u_chan_lo :
                                   u_chan_lo[j].q = q => j <= i
         IN  Ok([d \in {DriveChannel(u_chan_lo[i].q) : i \in DOMAIN u_chan_lo}
                    |-> u_chan_lo[last(d.index)].scale])

to_dict_result(self) ==
    IF self.cls = "Pulse" THEN Ok(Pulse_to_dict(self))
    ELSE Ok(Qasm_to_dict(self))

from_dict_result(cls, data) ==
    IF cls = "Pulse" THEN Pulse_from_dict(data) ELSE Qasm_from_dict(data)


(***************************************************************************)
(* The wire dictionaries a configuration is built from.                    *)
(***************************************************************************)
\* Largest number of qubits of a configuration.
MaxQubits == 2

f64_6_5 == [m |-> <<0, 0, 0, 5120, 1>>, e |-> 2]
f64_7 == [m |-> <<0, 0, 0, 6144, 1>>, e |-> 2]
f64_250 == [m |-> <<0, 0, 0, 7808, 1>>, e |-> 7]
f64_500 == [m |-> <<0, 0, 0, 7808, 1>>, e |-> 8]

cx_gate ==
    [name |-> "cx", parameters |-> <<>>,
     qasm_def |-> "gate cx q1,q2 { CX q1,q2; }",
     coupling_map |-> <<<<0, 1>>>>]

\* The required fields of a QasmBackendConfiguration with n qubits.
QasmData(n) ==
    [backend_name |-> "ibm_x", backend_version |-> "1.0.0", n_qubits |-> n,
     basis_gates |-> <<"cx">>, gates |-> <<cx_gate>>, local |-> FALSE,
     simulator |-> FALSE, conditional |-> FALSE, open_pulse |-> TRUE,
     memory |-> TRUE, max_shots |-> 4000, coupling_map |-> <<<<0, 1>>>>]

\* The required fields of a PulseBackendConfiguration with n qubits; the
\* u_channel_lo is the one of the docstring of describe.
PulseData(n) ==
    QasmData(n)
        @@ [n_uchannels |-> 2,
            u_channel_lo |-> <<<<[q |-> 0, scale |-> 1]>>,
                               <<[q |-> 0, scale |-> -1],
                                 [q |-> 1, scale |-> 1]>>>>,
            meas_levels |-> <<1, 2>>,
            qubit_lo_range |-> <<<<f64_4_5, f64_5_5>>>>,
            meas_lo_range |-> <<<<f64_6_5, f64_7>>>>,
            dt |-> f64_0_222, dtm |-> f64_0_222,
            rep_times |-> <<f64_1000>>,
            meas_kernels |-> <<"kernel1">>,
            discriminators |-> <<"max_1Q_fidelity">>]

\* Optional and passthrough fields, one at a time.
ExtraFields ==
    {EmptyDict,
     [n_registers |-> 1], [n_registers |-> 2],
     [max_experiments |-> 0], [max_experiments |-> 1],
     [rep_delay_range |-> <<>>], [rep_delay_range |-> <<f64_250, f64_500>>],
     [default_rep_delay |-> f64_250],
     [supported_instructions |-> <<"cx", "delay">>],
     [description |-> "a backend"],
     [quantum_volume |-> 32],
     [dt |-> f64_0_1, dtm |-> f64_0_1],
     [dt |-> f64_0_222, dtm |-> f64_0_222],
     [qubit_lo_range |-> <<<<f64_4_5, f64_5_5>>>>],
     [qubit_lo_range |-> <<<<f64_0_3, f64_7_5>>>>],
     [rep_times |-> <<f64_1000>>],
     [meas_map |-> <<<<0, 1>>>>],
     [hamiltonian |-> [h_str |-> <<"_SUM[i,0,1,wq{i}/2*(I{i}-Z{i})]">>,
                       vars |-> [wq0 |-> f64_4_5, wq1 |-> f64_0_3,
                                 note |-> [str |-> "GHz"]]]]}
RepRateFields == {EmptyDict, [dynamic_reprate_enabled |-> FALSE]}

\* A channel map entry: the name, and the config naming the qubits.
Entry(name, qubits) == <<name, [operates |-> [qubits |-> qubits]]>>
acquire_name(index) == <<"a", "c", "q", "u", "i", "r", "e", index>>

\* The channel map of two channels, and a map with every kind of channel and
\* two control channels on one pair.
ChannelMap_d0_u1 == <<Entry(<<"d", "0">>, <<0>>), Entry(<<"u", "1">>, <<0, 1>>)>>
ChannelMap_all ==
    <<Entry(acquire_name("0"), <<0>>), Entry(acquire_name("1"), <<1>>),
      Entry(<<"d", "0">>, <<0>>), Entry(<<"d", "1">>, <<1>>),
      Entry(<<"m", "0">>, <<0>>), Entry(<<"m", "1">>, <<1>>),
      Entry(<<"u", "0">>, <<0, 1>>), Entry(<<"u", "1">>, <<1, 0>>),
      Entry(<<"u", "1", "0">>, <<0, 1>>)>>
\* Names that are not <one of d, u, m, acquire><digits>.
OddNames ==
    {<<"d">>, <<"0">>, <<"D", "0">>, <<"d", "0", "x">>, <<"x", "0">>,
     <<"a", "0">>, <<"d", "_", "0">>, <<>>}
ChannelMaps ==
    {ChannelMap_d0_u1, ChannelMap_all, <<>>}
        \cup {Append(ChannelMap_d0_u1, Entry(name, <<1>>)) : name \in OddNames}

WireDicts ==
    \* optional and passthrough fields
    {[cls |-> cls,
      data |-> r @@ e @@ (IF cls = "Pulse" THEN PulseData(MaxQubits)
                          ELSE QasmData(MaxQubits))] :
        cls \in {"Qasm", "Pulse"}, e \in ExtraFields, r \in RepRateFields}
    \* channel maps
    \cup {[cls |-> "Pulse",
           data |-> [channels |-> channels, dynamic_reprate_enabled |-> FALSE]
                        @@ PulseData(n)] :
             channels \in ChannelMaps, n \in 1..MaxQubits}
    \* no channel map
    \cup {[cls |-> "Pulse",
           data |-> [dynamic_reprate_enabled |-> FALSE] @@ PulseData(n)] :
             n \in 1..MaxQubits}
    \* one required field absent
    \cup {[cls |-> "Pulse",
           data |-> dict_only(PulseData(MaxQubits), Pulse_required \ {k})] :
             k \in Pulse_required}
    \cup {[cls |-> "Qasm",
           data |-> dict_only(QasmData(MaxQubits), Qasm_required \ {k})] :
             k \in Qasm_required}
    \* a gate without a name, a u_channel_lo with a negative qubit
    \cup {[cls |-> cls,
           data |-> [gates |-> <<[parameters |-> <<>>, qasm_def |-> "x"]>>]
                        @@ PulseData(MaxQubits)] : cls \in {"Qasm", "Pulse"}}
    \cup {[cls |-> "Pulse",
           data |-> [u_channel_lo |-> <<<<[q |-> -1, scale |-> 1]>>>>]
                        @@ PulseData(MaxQubits)]}

\* The arguments the lookups are called with.
QubitArgs == -1..MaxQubits
QubitPairs == {<<0, 1>>, <<1, 0>>, <<MaxQubits, MaxQubits + 1>>}
PairArgs == {Tuple(q) : q \in QubitPairs} \cup {List(q) : q \in QubitPairs}
QubitsArgs ==
    PairArgs \cup {Tuple(<<0>>), List(<<0>>)}
        \cup {Scalar(q) : q \in 0..MaxQubits}
ChannelArgs ==
    {[kind |-> kind, index |-> index] :
        kind \in {"DriveChannel", "MeasureChannel", "AcquireChannel",
                  "ControlChannel"},
        index \in {0, 1, 10}}

(***************************************************************************)
(* The configuration as a state machine: one wire dictionary, one object   *)
(* built from it, and calls on the object in any order.                    *)
(***************************************************************************)
Outcome(op, arg, returned) ==
    [op |-> op, arg |-> arg,
     ret |-> IF returned.exc = None THEN <<returned.val>> ELSE <<>>,
     exc |-> returned.exc]

job_untouched ==
    UNCHANGED <<srvVars, jobVars, waitVars, calls, out, peer, primVars>>

InitConfig ==
    /\ srvStatus = "Queued"
    /\ srvReason = NoReason
    /\ srvResult = None
    /\ srvCase = "title"
    /\ _status = "INITIALIZING"
    /\ _reason_code = NoReason
    /\ _error_message = None
    /\ _backend = None
    /\ _final_result_decoder = "ResultDecoder"
    /\ pc = "idle"
    /\ call = NoCall
    /\ elapsed = 0
    /\ sleeps = 0
    /\ calls = NoCalls
    /\ out = ReturnedNone("__init__")
    /\ peer = NewJob
    /\ metadata \in SubmissionMetadata
    /\ wire \in WireDicts
    /\ config = NoConfig
    /\ cout = NoOutcome
    /\ NoPrimitives

from_dict ==
    /\ ~config.built
    /\ cout.op = "none"
    /\ LET made == from_dict_result(wire.cls, wire.data)
       IN  /\ config' = IF made.exc = None THEN made.val ELSE config
           /\ cout' = [op |-> "from_dict", arg |-> <<>>, ret |-> <<>>,
                       exc |-> made.exc]
    /\ UNCHANGED wire
    /\ job_untouched

to_dict ==
    /\ config.built
    /\ cout' = Outcome("to_dict", <<>>, to_dict_result(config))
    /\ UNCHANGED <<wire, config>>
    /\ job_untouched

drive(qubit) ==
    /\ config.built /\ config.cls = "Pulse"
    /\ cout' = Outcome("drive", qubit, drive_result(config, qubit))
    /\ UNCHANGED <<wire, config>>
    /\ job_untouched

measure(qubit) ==
    /\ config.built /\ config.cls = "Pulse"
    /\ cout' = Outcome("measure", qubit, measure_result(config, qubit))
    /\ UNCHANGED <<wire, config>>
    /\ job_untouched

acquire(qubit) ==
    /\ config.built /\ config.cls = "Pulse"
    /\ cout' = Outcome("acquire", qubit, acquire_result(config, qubit))
    /\ UNCHANGED <<wire, config>>
    /\ job_untouched

control(qubits) ==
    /\ config.built /\ config.cls = "Pulse"
    /\ LET called == control_result(config, qubits)
       IN  /\ cout' = Outcome("control", qubits, called.result)
           /\ config' = called.self
    /\ UNCHANGED wire
    /\ job_untouched

get_channel_qubits(channel) ==
    /\ config.built /\ config.cls = "Pulse"
    /\ cout' = Outcome("get_channel_qubits", channel,
                       get_channel_qubits_result(config, channel))
    /\ UNCHANGED <<wire, config>>
    /\ job_untouched

get_qubit_channels(qubit) ==
    /\ config.built /\ config.cls = "Pulse"
    /\ cout' = Outcome("get_qubit_channels", qubit,
                       get_qubit_channels_result(config, qubit))
    /\ UNCHANGED <<wire, config>>
    /\ job_untouched

describe(channel) ==
    /\ config.built /\ config.cls = "Pulse"
    /\ cout' = Outcome("describe", channel, describe_result(config, channel))
    /\ UNCHANGED <<wire, config>>
    /\ job_untouched

NextConfig ==
    \/ from_dict
    \/ to_dict
    \/ \E qubit \in QubitArgs : drive(qubit)
    \/ \E qubit \in QubitArgs : measure(qubit)
    \/ \E qubit \in QubitArgs : acquire(qubit)
    \/ \E qubits \in PairArgs : control(qubits)
    \/ \E channel \in ChannelArgs : get_channel_qubits(channel)
    \/ \E qubit \in QubitsArgs : get_qubit_channels(qubit)
    \/ \E channel \in ChannelArgs : describe(channel)

SpecConfig == InitConfig /\ [][NextConfig]_vars


(***************************************************************************)
(* Sessions and primitives.  Session, EstimatorV2, SamplerV2 and the       *)
(* validation of circuits against the backend are used by the unit tests   *)
(* and are modelled from what the tests and the specification say of them. *)
(* `with` blocks are not nested.                                           *)
(***************************************************************************)
\* Largest number of jobs a primitive hands to the transport.
MaxSubmits == 2

Session(backend_name) == [type |-> "session", backend |-> backend_name]
Backend(backend_name) == [type |-> "backend", backend |-> backend_name]
NoMode == [type |-> "none", backend |-> ""]
Modes ==
    {NoMode} \cup {Session(name) : name \in BackendNames}
        \cup {Backend(name) : name \in BackendNames}
Primitives == {"EstimatorV2", "SamplerV2"}

\* A circuit is the sequence of its instructions, each a gate name and the
\* indices of the qubits it acts on.
x_on(qubits) == [i \in DOMAIN qubits |-> [name |-> "x", qubits |-> <<qubits[i]>>]]
cx_on(control_qubit, target_qubit) ==
    <<[name |-> "cx", qubits |-> <<control_qubit, target_qubit>>]>>
Circuits ==
    {x_on(<<0>>), x_on([i \in 1..(MaxQubits + 1) |-> i - 1]),
     cx_on(0, 1), cx_on(MaxQubits - 1, MaxQubits)}
Pubs == {<<c>> : c \in Circuits} \cup {<<c, d>> : c, d \in Circuits}

\* The faults a backend reports: none, its last qubit, or the edge (0, 1).
Faults ==
    {NoFaults,
     [faulty_qubits |-> {MaxQubits}, faulty_edges |-> {}],
     [faulty_qubits |-> {}, faulty_edges |-> {<<"cx", <<0, 1>>>>}]}

\* The primitive a constructor call makes with no regard to the session of
\* the enclosing block.
primitive__init___no_default(primitive, mode, default_session) ==
    CASE mode.type = "session" ->
             Ok([built |-> TRUE, primitive |-> primitive, mode |-> <<mode>>,
                 backend |-> mode.backend])
      [] mode.type = "backend" ->
             Ok([built |-> TRUE, primitive |-> primitive, mode |-> <<>>,
                 backend |-> mode.backend])
      [] OTHER -> Err("ValueError")

\* EstimatorV2(mode) and SamplerV2(mode): a session given as mode is the mode;
\* a backend given as mode inside a `with Session` block must be the backend
\* of that session, which becomes the mode; with no mode the session of the
\* enclosing block is the mode, and outside a block there is nothing to run on.
primitive__init__(primitive, mode, default_session) ==
    CASE mode.type = "session" ->
             Ok([built |-> TRUE, primitive |-> primitive, mode |-> <<mode>>,
                 backend |-> mode.backend])
      [] mode.type = "backend" ->
             IF default_session = <<>>
             THEN Ok([built |-> TRUE, primitive |-> primitive, mode |-> <<>>,
                      backend |-> mode.backend])
             ELSE IF mode.backend # default_session[1].backend
             THEN Err("ValueError")
             ELSE Ok([built |-> TRUE, primitive |-> primitive,
                      mode |-> default_session, backend |-> mode.backend])
      [] OTHER ->
             IF default_session = <<>> THEN Err("ValueError")
             ELSE Ok([built |-> TRUE, primitive |-> primitive,
                      mode |-> default_session,
                      backend |-> default_session[1].backend])

\* The fault an instruction runs into, if any: a faulty qubit among its
\* qubits, else the faulty edge it is on.
instruction_fault(instruction, fault) ==
    LET hit == {i \in DOMAIN instruction.qubits :
                   instruction.qubits[i] \in fault.faulty_qubits}
    IN  IF hit # {}
        THEN <<[kind |-> "faulty qubit", name |-> instruction.name,
                qubits |-> <<instruction.qubits[CHOOSE i \in hit :
                                                   \A j \in hit : i <= j]>>]>>
        ELSE IF /\ Len(instruction.qubits) = 2
                /\ <<instruction.name, instruction.qubits>> \in fault.faulty_edges
        THEN <<[kind |-> "faulty edge", name |-> instruction.name,
                qubits |-> instruction.qubits]>>
        ELSE <<>>

\* The first fault the instructions of a circuit run into, if any.
RECURSIVE check_faulty(_, _)
check_faulty(circuit, fault) ==
    IF circuit = <<>> THEN <<>>
    ELSE IF instruction_fault(Head(circuit), fault) # <<>>
    THEN instruction_fault(Head(circuit), fault)
    ELSE check_faulty(Tail(circuit), fault)

\* The validation that looks at the first circuit only.
validate_first_only(pubs, fault) == check_faulty(pubs[1], fault)

\* The validation of the submitted circuits, in order.
RECURSIVE validate(_, _)
validate(pubs, fault) ==
    IF pubs = <<>> THEN <<>>
    ELSE IF check_faulty(Head(pubs), fault) # <<>>
    THEN check_faulty(Head(pubs), fault)
    ELSE validate(Tail(pubs), fault)

InitPrimitives ==
    /\ srvStatus = "Queued"
    /\ srvReason = NoReason
    /\ srvResult = None
    /\ srvCase = "title"
    /\ _status = "INITIALIZING"
    /\ _reason_code = NoReason
    /\ _error_message = None
    /\ _backend = None
    /\ _final_result_decoder = "ResultDecoder"
    /\ pc = "idle"
    /\ call = NoCall
    /\ elapsed = 0
    /\ sleeps = 0
    /\ calls = NoCalls
    /\ out = ReturnedNone("__init__")
    /\ peer = NewJob
    /\ metadata \in SubmissionMetadata
    /\ wire = NoWire
    /\ config = NoConfig
    /\ cout = NoOutcome
    /\ _DEFAULT_SESSION = <<>>
    /\ faults \in [BackendNames -> Faults]
    /\ inst = NoPrimitive
    /\ submits = 0
    /\ pout = NoRun

rest_untouched ==
    UNCHANGED <<srvVars, jobVars, waitVars, calls, out, peer, wire, config,
                cout, faults>>

\* with Session(backend=...) as session:
Session__enter__(backend_name) ==
    /\ _DEFAULT_SESSION = <<>>
    /\ _DEFAULT_SESSION' = <<Session(backend_name)>>
    /\ pout' = [NoRun EXCEPT !.op = "__enter__", !.arg = backend_name]
    /\ UNCHANGED <<inst, submits>>
    /\ rest_untouched

\* the end of the `with` block
Session__exit__ ==
    /\ _DEFAULT_SESSION # <<>>
    /\ _DEFAULT_SESSION' = <<>>
    /\ pout' = [NoRun EXCEPT !.op = "__exit__", !.ambient = _DEFAULT_SESSION]
    /\ UNCHANGED <<inst, submits>>
    /\ rest_untouched

\* inst = primitive(mode=mode)
primitive_call(primitive, mode) ==
    /\ LET made == primitive__init__(primitive, mode, _DEFAULT_SESSION)
       IN  /\ inst' = IF made.exc = None THEN made.val ELSE inst
           /\ pout' = [NoRun EXCEPT !.op = "__init__", !.arg = mode,
                                    !.ambient = _DEFAULT_SESSION,
                                    !.exc = made.exc]
    /\ UNCHANGED <<_DEFAULT_SESSION, submits>>
    /\ rest_untouched

\* inst.run(pubs): the circuits are validated against the backend, and only
\* then is the job handed to the transport.
run(pubs) ==
    /\ inst.built
    /\ submits < MaxSubmits
    /\ LET found == validate(pubs, faults[inst.backend])
       IN  /\ submits' = IF found = <<>> THEN submits + 1 ELSE submits
           /\ pout' = [NoRun EXCEPT !.op = "run", !.arg = pubs,
                                    !.ambient = _DEFAULT_SESSION,
                                    !.exc = IF found = <<>> THEN None
                                            ELSE "ValueError",
                                    !.named = found]
    /\ UNCHANGED <<_DEFAULT_SESSION, inst>>
    /\ rest_untouched

NextPrimitives ==
    \/ \E backend_name \in BackendNames : Session__enter__(backend_name)
    \/ Session__exit__
    \/ \E primitive \in Primitives, mode \in Modes :
         primitive_call(primitive, mode)
    \/ \E pubs \in Pubs : run(pubs)

SpecPrimitives == InitPrimitives /\ [][NextPrimitives]_vars

\* ---- end of the backend configuration model ----

TypeOK ==
    /\ srvStatus \in ServerStatuses
    /\ srvReason \in ReasonCodes
    /\ srvResult \in Payloads
    /\ _status \in {"INITIALIZING", "QUEUED", "RUNNING", "CANCELLED", "DONE",
                    "ERROR", "PENDING"}
    /\ _reason_code \in ReasonCodes
    /\ srvCase \in LetterCases
    /\ _error_message \in {None, "error message"}
    /\ peer._status \in {"INITIALIZING", "QUEUED", "RUNNING", "CANCELLED",
                         "DONE", "ERROR", "PENDING"}
    /\ peer._reason_code \in ReasonCodes
    /\ pc \in {"idle", "waiting"}
    /\ call.timeout \in Timeouts
    /\ elapsed \in 0..(MaxTimeout + PollInterval + MaxLatency)
    /\ sleeps \in 0..(MaxTimeout + 1)

(***************************************************************************)
(* Properties.                                                             *)
(***************************************************************************)
\* the terminal values of the status, as the specification lists them
TerminalValues == {"DONE", "CANCELLED", "ERROR"}

\* the state the mapping table promises for the state the service holds, with
\* the reclassification of a cancellation under the recorded reason code
MappedState(server_status, recorded_reason_code) ==
    CASE server_status = "Queued"    -> "QUEUED"
      [] server_status = "Running"   -> "RUNNING"
      [] server_status = "Completed" -> "DONE"
      [] server_status = "Failed"    -> "ERROR"
      [] server_status = "Cancelled" ->
            IF recorded_reason_code = 1305 THEN "ERROR" ELSE "CANCELLED"

\* C1: a status() call on a job whose cached status is not terminal, answered
\* with one of the five table statuses in any letter case, sets and returns
\* the mapped state; server CANCELLED with recorded reason code 1305 gives
\* ERROR.
C1_StatusMapping ==
    [][(status /\ _status \notin TerminalValues /\ srvStatus # "Pending")
         => /\ _status' = MappedState(srvStatus, _reason_code')
            /\ out'.ret = <<_status'>>]_vars

C1_Witness ==
    /\ out.op = "status"
    /\ calls.status = 1
    /\ srvStatus = "Cancelled"
    /\ _reason_code = 1305
    /\ out.ret = <<"ERROR">>

\* C2: terminal states are absorbing: no step of any method changes a status
\* that is DONE, CANCELLED or ERROR.
C2_TerminalAbsorbing ==
    [][(_status \in TerminalValues) => (_status' = _status)]_vars

C2_Witness ==
    /\ _status = "DONE"
    /\ out.op = "cancel"
    /\ out.exc = "RuntimeInvalidStateError"

\* C3: once status() has returned a terminal value the cached status is that
\* value, and every status() call on a terminal cached status makes no
\* transport round trip and returns the same value.
C3_TerminalStatusIdempotent ==
    /\ [](out.op = "status" /\ out.ret \in {<<v>> : v \in TerminalValues}
            => out.ret = <<_status>>)
    /\ [][(status /\ _status \in TerminalValues)
            => /\ calls'.status = 0
               /\ out'.ret = <<_status>>
               /\ (_status' = _status)]_vars

C3_Witness ==
    /\ out.op = "status"
    /\ calls.status = 0
    /\ out.ret \in {<<v>> : v \in TerminalValues}

\* a result() call has ended (returned or raised)
ResultEnded == out.op = "result" /\ out.exc # "blocked"

\* C4: result() on final status CANCELLED raises RuntimeInvalidStateError, on
\* ERROR with a reason code other than 1305 RuntimeJobFailureError, on ERROR
\* with reason code 1305 RuntimeJobMaxTimeoutError.
C4_ResultErrors ==
    ResultEnded =>
        /\ _status = "CANCELLED" => out.exc = "RuntimeInvalidStateError"
        /\ (_status = "ERROR" /\ _reason_code # 1305)
              => out.exc = "RuntimeJobFailureError"
        /\ (_status = "ERROR" /\ _reason_code = 1305)
              => out.exc = "RuntimeJobMaxTimeoutError"

C4_Witness ==
    /\ ResultEnded
    /\ _status = "ERROR"
    /\ _reason_code = 1305
    /\ srvStatus = "Failed"
    /\ out.exc = "RuntimeJobMaxTimeoutError"

\* C5: result() on a job that ends DONE with a non-empty raw payload returns
\* decoder.decode(payload), with the explicit decoder argument when one is
\* given and the job's bound default decoder otherwise.
C5_ResultDecoded ==
    (ResultEnded /\ _status = "DONE" /\ srvResult \notin {None, ""}) =>
        /\ out.exc = None
        /\ calls.results = 1
        /\ out.ret = <<decode(IF call.decoder # NoDecoder THEN call.decoder
                              ELSE _final_result_decoder, srvResult)>>

C5_Witness ==
    /\ ResultEnded
    /\ _status = "DONE"
    /\ call.decoder \in Decoders
    /\ call.decoder # _final_result_decoder
    /\ out.ret = <<decode(call.decoder, "payload_b")>>

\* C6: result() on a job that ends DONE with an empty or absent raw payload
\* returns None and never invokes the decoder.
C6_ResultEmpty ==
    (ResultEnded /\ _status = "DONE" /\ srvResult \in {None, ""}) =>
        /\ out.exc = None
        /\ out.ret = <<>>
        /\ calls.decode = 0

C6_Witness ==
    /\ ResultEnded
    /\ _status = "DONE"
    /\ srvResult = ""
    /\ calls.results = 1
    /\ out.ret = <<>>

\* a timed wait_for_final_state(timeout=T) call has ended after k = sleeps
\* polls at the poll interval, the status round trips having taken no time
TimedWaitEnded ==
    /\ pc = "idle"
    /\ out.op = "wait_for_final_state"
    /\ call.op = "wait_for_final_state"
    /\ call.timeout # NoTimeout
IdealTiming == elapsed = sleeps * 2

C8_CancelOutcome ==
    /\ [](out.op = "cancel" =>
            /\ calls.cancel = 1
            /\ calls.status_code = 409 => out.exc = "RuntimeInvalidStateError"
            /\ calls.status_code \notin {200, 409} => out.exc = "IBMRuntimeError"
            /\ calls.status_code = 200 => (out.exc = None /\ _status = "CANCELLED"))
    /\ [][(cancelled /\ out.op = "cancel" /\ out.exc = None)
            => (out'.ret = <<TRUE>> /\ calls'.status = 0)]_vars

C8_Witness ==
    /\ out.op = "cancelled"
    /\ out.ret = <<TRUE>>
    /\ calls.status = 0
    /\ srvStatus = "Completed"

\* a status refresh of this Job object has observed the remote job CANCELLED
\* with reason code 1305 (only a refresh records a reason code)
ObservedMaxTime == srvStatus = "Cancelled" /\ _reason_code = 1305

\* C9: a job the server reports CANCELLED with reason code 1305 never looks
\* cancelled: after the refresh that observes it the status is ERROR,
\* cancelled() returns False, errored() returns True and result() raises
\* RuntimeJobMaxTimeoutError.
C9_MaxTimeNotCancelled ==
    ObservedMaxTime =>
        /\ _status = "ERROR"
        /\ out.op = "cancelled" => out.ret = <<FALSE>>
        /\ out.op = "errored" => out.ret = <<TRUE>>
        /\ ResultEnded => out.exc = "RuntimeJobMaxTimeoutError"

C9_Witness ==
    /\ ObservedMaxTime
    /\ ResultEnded
    /\ out.exc = "RuntimeJobMaxTimeoutError"

C11_Logs ==
    out.op = "logs" =>
        /\ calls.logs = 1
        /\ calls.status_code = 200 => (out.exc = None /\ out.ret = <<"log text">>)
        /\ calls.status_code = 404 => (out.exc = None /\ out.ret = <<"">>)
        /\ calls.status_code \notin {200, 404} => out.exc = "IBMRuntimeError"
        /\ calls.warning = (IF _status \in TerminalValues THEN 0 ELSE 1)

C11_Witness ==
    /\ out.op = "logs"
    /\ calls.status_code = 404
    /\ calls.warning = 1
    /\ out.ret = <<"">>


\* C12: backend(timeout) returns a backend that is already known with no wait
\* and no transport call; when the backend is not known it first waits for a
\* final state, then fetches the job metadata exactly once and resolves the
\* reported name through the service; a backend once resolved is never
\* replaced, so every later call returns it without a transport call.
C12_BackendOutcome ==
    out.op = "backend" =>
        /\ calls.job_get <= 1
        /\ call = NoCall =>
              (_backend # None /\ calls = NoCalls /\ out = Returned("backend", _backend))
        /\ call.op = "backend" /\ out.exc = "blocked" => calls.job_get = 0
        /\ call.op = "backend" /\ out.exc = "RuntimeJobTimeoutError" =>
              (calls.job_get = 0 /\ _status \notin TerminalValues)
        /\ call.op = "backend" /\ out.exc \in {None, "IBMRuntimeError"} =>
              (calls.job_get = 1 /\ _status \in TerminalValues)
        /\ call.op = "backend" /\ out.exc = None => out.ret = <<_backend>>

C12_Backend ==
    /\ [](C12_BackendOutcome)
    /\ [][(out'.op = "backend" /\ \E timeout \in Timeouts : backend(timeout)) =>
              IF _backend # None
              THEN pc' = "idle" /\ calls' = NoCalls
                   /\ out' = Returned("backend", _backend)
              ELSE pc' = "waiting" /\ calls'.job_get = 0]_vars
    /\ [][(_backend' # _backend) =>
              /\ _backend = None
              /\ pc = "waiting" /\ call.op = "backend"
              /\ _backend' = service_backend("ibm_x")
              /\ calls'.job_get = 1]_vars

C12_Witness ==
    /\ out.op = "backend"
    /\ call.op = "backend"
    /\ calls.job_get = 1
    /\ sleeps > 0
    /\ out.ret = <<service_backend("ibm_x")>>


\* a status() call that polls the service while the remote job is in a
\* state that is not one of the five table entries
PollsUnmappedStatus ==
    srvStatus = "Pending" /\ _status \notin TerminalValues /\ status

\* C13 as stated: a raw status that is not one of the five table entries is
\* passed through unmodified, status() returns exactly the string the server
\* sent.
C13_AsStated ==
    [][PollsUnmappedStatus => out'.ret = <<Wire(srvStatus, srvCase)>>]_vars

\* C13: a raw status that is not one of the five table entries is passed
\* through upper-cased: status() returns and caches the upper-case form of the
\* string the server sent, which is the string itself only when the server
\* sent it in upper case.
C13_PassThroughUpperCased ==
    [][PollsUnmappedStatus =>
          /\ out' = Returned("status", "PENDING")
          /\ _status' = "PENDING"
          /\ (out'.ret = <<Wire(srvStatus, srvCase)>>) <=> (srvCase = "upper")]_vars

C13_Witness ==
    /\ out = Returned("status", "PENDING")
    /\ calls.status = 1
    /\ srvStatus = "Pending"
    /\ Wire(srvStatus, srvCase) = "Pending"


\* the lifecycle relation over the table statuses, as the specification
\* draws it
Lifecycle ==
    ({"INITIALIZING"} \X {"QUEUED", "RUNNING", "DONE", "CANCELLED", "ERROR"})
    \cup {<<"QUEUED", "RUNNING">>, <<"RUNNING", "QUEUED">>}
    \cup ({"QUEUED", "RUNNING"} \X TerminalValues)

\* the statuses that are not terminal, a passed-through status among them
NonTerminalValues == {"INITIALIZING", "QUEUED", "RUNNING", "PENDING"}

\* the lifecycle relation with a passed-through status as one more
\* non-terminal status
LifecycleWithPassThrough ==
    {pair \in NonTerminalValues \X ((NonTerminalValues \ {"INITIALIZING"})
                                     \cup TerminalValues) : pair[1] # pair[2]}

\* C14 as stated: the status starts as INITIALIZING and every change of it
\* follows INITIALIZING -> {QUEUED, RUNNING, DONE, CANCELLED, ERROR},
\* QUEUED <-> RUNNING, {QUEUED, RUNNING} -> {DONE, CANCELLED, ERROR}.
C14_AsStated ==
    /\ _status = "INITIALIZING"
    /\ [][(_status' # _status) => (<<_status, _status'>> \in Lifecycle)]_vars

\* C14: the status starts as INITIALIZING and every change of it follows the
\* lifecycle relation extended with the passed-through statuses as further
\* non-terminal statuses: it never returns to INITIALIZING, never leaves the
\* terminal set, and a change between two table statuses is one the stated
\* relation lists.
C14_Lifecycle ==
    /\ _status = "INITIALIZING"
    /\ [][(_status' # _status) =>
              /\ <<_status, _status'>> \in LifecycleWithPassThrough
              /\ _status' # "INITIALIZING"
              /\ _status \notin TerminalValues
              /\ ("PENDING" \notin {_status, _status'}) =>
                     (<<_status, _status'>> \in Lifecycle)]_vars

C14_Witness ==
    /\ _status = "PENDING"
    /\ out.op = "status"
    /\ calls.status = 1


\* the names of the calls that are one status() call each
StatusOps ==
    {"status", "cancelled", "done", "errored", "running", "in_final_state"}

\* the calls that are one status() call each
StatusCalls == status \/ cancelled \/ done \/ errored \/ running \/ in_final_state

\* C15: a status() call on a job whose cached status is not terminal performs
\* exactly one round trip to the status endpoint, and so does each of
\* cancelled(), done(), errored(), running() and in_final_state().
C15_OneRoundTrip ==
    /\ [][(_status \notin TerminalValues /\ out'.op = "status" /\ status) =>
              (calls'.status = 1)]_vars
    /\ [][(_status \notin TerminalValues /\ out'.op = "cancelled" /\ cancelled) =>
              (calls'.status = 1)]_vars
    /\ [][(_status \notin TerminalValues /\ out'.op = "done" /\ done) =>
              (calls'.status = 1)]_vars
    /\ [][(_status \notin TerminalValues /\ out'.op = "errored" /\ errored) =>
              (calls'.status = 1)]_vars
    /\ [][(_status \notin TerminalValues /\ out'.op = "running" /\ running) =>
              (calls'.status = 1)]_vars
    /\ [][(_status \notin TerminalValues /\ out'.op = "in_final_state" /\ in_final_state) =>
              (calls'.status = 1)]_vars
    /\ [][(out'.op \in StatusOps /\ StatusCalls) =>
              (calls' = [NoCalls EXCEPT !.status = calls'.status]
               /\ calls'.status \in {0, 1})]_vars

C15_Witness ==
    /\ out = Returned("in_final_state", FALSE)
    /\ calls.status = 1
    /\ _status = "RUNNING"


\* the Job object holds CANCELLED while the service finalized the job as
\* completed or failed: only a cancel() that returned success while the
\* service finalized the job concurrently leads here
RaceWon == _status = "CANCELLED" /\ srvStatus \in {"Completed", "Failed"}

\* what the calls made after the race was won report
RaceWonOutcome ==
    /\ out.op # "cancel" => calls.status = 0
    /\ out.op = "status" => out.ret = <<"CANCELLED">>
    /\ out.op = "cancelled" => out.ret = <<TRUE>>
    /\ out.op = "in_final_state" => out.ret = <<TRUE>>
    /\ out.op \in {"done", "errored", "running"} => out.ret = <<FALSE>>
    /\ out.op = "wait_for_final_state" => out.exc \in {None, "blocked"}
    /\ ResultEnded =>
          (out.exc = "RuntimeInvalidStateError" /\ calls.results = 0)

\* C16: a cancel() that returns success leaves the status CANCELLED even when
\* the service finalized the job to completed or failed concurrently; the
\* status then stays CANCELLED under every later call, no later call polls the
\* service, and result() raises RuntimeInvalidStateError without a fetch.
C16_FirstCancelWins ==
    /\ [][(cancel /\ out'.exc = None) => (_status' = "CANCELLED")]_vars
    /\ [][RaceWon => RaceWon']_vars
    /\ [](RaceWon => RaceWonOutcome)

C16_Witness ==
    /\ RaceWon
    /\ srvStatus = "Completed"
    /\ ResultEnded
    /\ out.exc = "RuntimeInvalidStateError"


\* the latest call ended with RuntimeJobTimeoutError
TimedOut == out.exc = "RuntimeJobTimeoutError"

\* a call that polls: status(), or the first status call of a wait or of
\* result(), with the arguments the call was made with
PollingCall ==
    \/ out'.op = "status" /\ status
    \/ out'.op = "wait_for_final_state" /\ wait_for_final_state(call'.timeout)
    \/ out'.op = "result" /\ result(call'.timeout, call'.decoder)

\* C17: RuntimeJobTimeoutError is raised only while the last polled status is
\* not terminal and only by a timed wait, raising it changes neither the
\* status of the Job object nor the remote job, and the next status(),
\* wait_for_final_state() or result() call polls the service again and reads
\* DONE when the remote job has completed.
C17_TimeoutClientSide ==
    /\ [](TimedOut => (_status \notin TerminalValues /\ call.timeout # NoTimeout))
    /\ [][(TimedOut' /\ ~TimedOut) =>
              UNCHANGED <<srvVars, _status, _reason_code, _error_message>>]_vars
    /\ [][(TimedOut /\ PollingCall) =>
              /\ calls'.status = 1
              /\ (srvStatus = "Completed") => (_status' = "DONE")
              /\ (srvStatus \in {"Queued", "Running"}) =>
                     (_status' = MappedState(srvStatus, _reason_code'))]_vars

C17_Witness ==
    /\ TimedOut
    /\ out.op = "result"
    /\ srvStatus = "Completed"
    /\ _status = "RUNNING"


\* C18: one call of cancel(), logs(), result() or backend() issues at most
\* one transport call of its own kind, and when that call fails the failure
\* is reported to the caller with the call issued once.
C18_NoRetry ==
    /\ calls.cancel <= 1 /\ calls.logs <= 1
    /\ calls.results <= 1 /\ calls.job_get <= 1
    /\ out.op = "cancel" =>
          /\ calls.cancel = 1
          /\ calls.status_code # 200 =>
                out.exc \in {"RuntimeInvalidStateError", "IBMRuntimeError"}
    /\ out.op = "logs" =>
          /\ calls.logs = 1
          /\ calls.status_code = 500 => out.exc = "IBMRuntimeError"
    /\ out.op = "backend" /\ out.exc = "IBMRuntimeError" => calls.job_get = 1
    /\ out.op = "result" => calls.results = (IF out.exc = None THEN 1 ELSE 0)

C18_Witness ==
    /\ out = Raised("cancel", "IBMRuntimeError")
    /\ calls.cancel = 1
    /\ calls.status_code = 500


\* C19: with two Job objects polling the same remote job and nobody
\* cancelling it, a poll of either object changes neither the remote job nor
\* the other object; a poll made once the remote job is final sets the
\* terminal status the mapping gives for the state the service holds, so both
\* objects end with the same terminal status, the one of the service.
C19_SharedPolling ==
    /\ [][status => UNCHANGED <<srvVars, peer>>]_vars
    /\ [][peer_status => UNCHANGED <<srvVars, _status, _reason_code>>]_vars
    /\ [][(status /\ _status \notin TerminalValues /\ srvStatus \in ServerFinal) =>
              (_status' = MappedState(srvStatus, srvReason))]_vars
    /\ [][(peer_status /\ peer._status \notin TerminalValues
                       /\ srvStatus \in ServerFinal) =>
              (peer'._status = MappedState(srvStatus, srvReason))]_vars
    /\ [](\A s \in {_status, peer._status} :
              s \in TerminalValues =>
                  (srvStatus \in ServerFinal /\ s = MappedState(srvStatus, srvReason)))

C19_Witness ==
    /\ srvStatus = "Cancelled"
    /\ srvReason = MaxTimeReasonCode
    /\ _status = "ERROR"
    /\ peer._status = "ERROR"
    /\ out.op = "status"


C21_MetadataUnchanged ==
    /\ metadata \in SubmissionMetadata
    /\ [][metadata' = metadata]_vars

C21_Witness ==
    /\ metadata \in SubmissionMetadata
    /\ _status = "CANCELLED"
    /\ out.op = "backend"
    /\ calls.job_get = 1
    /\ _backend # None


(***************************************************************************)
(* Backend configuration: properties, checked under SpecConfig.            *)
(***************************************************************************)
\* the channel class each of drive, measure and acquire returns
TypedChannel(op, index) ==
    [kind |-> CASE op = "drive" -> "DriveChannel"
                [] op = "measure" -> "MeasureChannel"
                [] op = "acquire" -> "AcquireChannel",
     index |-> index]

\* C22: drive(qubit), measure(qubit) and acquire(qubit) return the channel of
\* their kind with index qubit exactly when 0 <= qubit < n_qubits, and raise
\* BackendConfigurationError otherwise (so for -1 and for n_qubits).
C22_TypedChannels ==
    cout.op \in {"drive", "measure", "acquire"} =>
        IF 0 <= cout.arg /\ cout.arg < wire.data.n_qubits
        THEN cout.exc = None /\ cout.ret = <<TypedChannel(cout.op, cout.arg)>>
        ELSE cout.exc = "BackendConfigurationError" /\ cout.ret = <<>>

C22_Witness ==
    /\ cout.op = "acquire"
    /\ wire.data.n_qubits = 1
    /\ cout.arg = 0
    /\ cout.ret = <<AcquireChannel(0)>>


\* the control channels a channel map declares for a qubit tuple: one
\* ControlChannel per entry named u<index> that operates on exactly `qubits`,
\* in the order of the map
DeclaredControlChannels(channels, qubits) ==
    LET declared(entry) ==
            /\ entry[1] # <<>>
            /\ Head(entry[1]) = "u"
            /\ entry[2].operates.qubits = qubits
        entries == SelectSeq(channels, declared)
    IN  [i \in DOMAIN entries |-> ControlChannel(int(Tail(entries[i][1])))]

\* C23: on a configuration built with a channel map, control(qubits), for a
\* tuple or a list, returns exactly the control channels the map declares for
\* that qubit tuple, and raises BackendConfigurationError when the map
\* declares none: it never returns an empty list.
C23_ControlWithChannelMap ==
    (cout.op = "control" /\ "channels" \in DOMAIN wire.data) =>
        LET expected ==
                DeclaredControlChannels(wire.data.channels, cout.arg.items)
        IN  IF expected # <<>>
            THEN cout.exc = None /\ cout.ret = <<expected>>
            ELSE cout.exc = "BackendConfigurationError" /\ cout.ret = <<>>

C23_Witness ==
    /\ cout.op = "control"
    /\ "channels" \in DOMAIN wire.data
    /\ wire.data.channels = ChannelMap_d0_u1
    /\ cout.arg = List(<<0, 1>>)
    /\ cout.ret = <<<<ControlChannel(1)>>>>


\* C24: on a configuration built with no channel map, control(qubits) raises
\* BackendConfigurationError for every qubit tuple.
C24_ControlWithoutChannelMap ==
    (cout.op = "control" /\ "channels" \notin DOMAIN wire.data) =>
        cout.exc = "BackendConfigurationError" /\ cout.ret = <<>>

\* C25: for wire data with dt = 0.222 (ns), to_dict of the configuration built
\* from it gives dt = 0.222 again, and for wire data with qubit_lo_range =
\* [[4.5, 5.5]] (GHz) it gives [[4.5, 5.5]] again: for these values the two
\* binary64 multiplications of each conversion cancel exactly.
C25_UnitsRoundTrip ==
    cout.op = "to_dict" =>
        /\ ("dt" \in DOMAIN wire.data /\ wire.data.dt = f64_0_222) =>
               cout.ret[1].dt = f64_0_222
        /\ ("qubit_lo_range" \in DOMAIN wire.data
               /\ wire.data.qubit_lo_range = <<<<f64_4_5, f64_5_5>>>>) =>
               cout.ret[1].qubit_lo_range = <<<<f64_4_5, f64_5_5>>>>

C25_Witness ==
    /\ cout.op = "to_dict"
    /\ wire.cls = "Pulse"
    /\ wire.data.dt = f64_0_222
    /\ wire.data.qubit_lo_range = <<<<f64_4_5, f64_5_5>>>>
    /\ config.attrs.dt = f64_mul(f64_0_222, f64_1e_9)
    /\ config.attrs.dt # f64_0_222
    /\ config.attrs.qubit_lo_range[1][1] = f64_mul(f64_4_5, f64_1e9)
    /\ cout.ret[1].dt = f64_0_222
    /\ cout.ret[1].qubit_lo_range = <<<<f64_4_5, f64_5_5>>>>


\* C26: to_dict is the inverse of from_dict: for every wire dictionary that
\* from_dict accepts, to_dict of the configuration built from it is that
\* dictionary, every field with the value it had, no key added or dropped.
C26_ToDictInvertsFromDict ==
    cout.op = "to_dict" => cout.ret[1] = wire.data

\* the fields from_dict cannot do without, for each class
RequiredFields(cls) == IF cls = "Pulse" THEN Pulse_required ELSE Qasm_required

\* C27: from_dict of a wire dictionary with a required field absent raises
\* BackendConfigurationError, and no other kind of error.
C27_MissingFieldError ==
    (cout.op = "from_dict"
        /\ ~(RequiredFields(wire.cls) \subseteq DOMAIN wire.data)) =>
        cout.exc = "BackendConfigurationError"

\* a channel name of the strict form: one of the prefixes d, u, m, acquire,
\* then one or more digits, then nothing
StrictName(name) ==
    \E prefix \in DOMAIN channels_dict :
        /\ Len(name) > Len(prefix)
        /\ SubSeq(name, 1, Len(prefix)) = prefix
        /\ \A i \in (Len(prefix) + 1)..Len(name) : name[i] \in Digits

\* the channel a name of the strict form stands for
ChannelOf(name) ==
    LET parsed == _get_channel_prefix_index(name).val
    IN  [kind |-> channels_dict[parsed[1]], index |-> parsed[2]]

\* C28: construction from a channel map succeeds exactly when every channel
\* name has the strict form, and fails with BackendConfigurationError
\* otherwise; the channels of a map that is accepted are the ones its names
\* stand for.
C28_StrictChannelNames ==
    (cout.op = "from_dict"
        /\ RequiredFields(wire.cls) \subseteq DOMAIN wire.data
        /\ "channels" \in DOMAIN wire.data) =>
        LET channels == wire.data.channels
        IN  IF \A i \in DOMAIN channels : StrictName(channels[i][1])
            THEN /\ cout.exc = None
                 /\ DOMAIN config.attrs._channel_qubit_map
                        = {ChannelOf(channels[i][1]) : i \in DOMAIN channels}
            ELSE cout.exc = "BackendConfigurationError"

\* C29: once built, a configuration is never changed by a call on it.
C29_ReadOnly == [][config.built => config' = config]_vars

\* the channels of a channel map whose entry satisfies `touches`
ChannelsWhere(channels, touches(_)) ==
    {ChannelOf(channels[i][1]) :
        i \in {i \in DOMAIN channels : touches(channels[i][2].operates.qubits)}}

\* C30: get_qubit_channels(qubit) returns, for one qubit, the set of all
\* channels of the map whose qubit tuple contains it, and for a tuple or a list
\* the channels of the entries for exactly that tuple; it raises
\* BackendConfigurationError when there is no such channel and when the
\* configuration was built with no channel map.
C30_QubitChannels ==
    cout.op = "get_qubit_channels" =>
        LET contains(qubits) == cout.arg.items[1] \in Members(qubits)
            is(qubits) == qubits = cout.arg.items
            expected ==
                IF "channels" \notin DOMAIN wire.data THEN {}
                ELSE IF cout.arg.type = "int"
                THEN ChannelsWhere(wire.data.channels, contains)
                ELSE ChannelsWhere(wire.data.channels, is)
        IN  IF expected = {}
            THEN cout.exc = "BackendConfigurationError" /\ cout.ret = <<>>
            ELSE cout.exc = None /\ cout.ret = <<expected>>

C30_Witness ==
    /\ cout.op = "get_qubit_channels"
    /\ "channels" \in DOMAIN wire.data
    /\ wire.data.channels = ChannelMap_d0_u1
    /\ cout.arg = Scalar(0)
    /\ cout.ret = <<{DriveChannel(0), ControlChannel(1)}>>


\* C31: describe(channel) raises BackendConfigurationError when the channel is
\* not a ControlChannel; for ControlChannel(n), with u_channel_lo[n] in the
\* wire data, it returns the mapping whose keys are the DriveChannel(q) of the
\* entries of u_channel_lo[n] and that sends each DriveChannel(q) to the scale
\* of its entry.
C31_Describe ==
    cout.op = "describe" =>
        IF cout.arg.kind # "ControlChannel"
        THEN cout.exc = "BackendConfigurationError" /\ cout.ret = <<>>
        ELSE cout.arg.index + 1 \in DOMAIN wire.data.u_channel_lo =>
                 LET entries == wire.data.u_channel_lo[cout.arg.index + 1]
                 IN  /\ cout.exc = None
                     /\ DOMAIN cout.ret[1]
                            = {DriveChannel(entries[i].q) : i \in DOMAIN entries}
                     /\ \A i \in DOMAIN entries :
                            cout.ret[1][DriveChannel(entries[i].q)]
                                = entries[i].scale

C31_Witness ==
    /\ cout.op = "describe"
    /\ cout.arg = ControlChannel(1)
    /\ cout.exc = None
    /\ cout.ret = <<(DriveChannel(0) :> -1) @@ (DriveChannel(1) :> 1)>>


\* the fields that carry a unit, for each class (a QasmBackendConfiguration
\* keeps a hamiltonian as a passthrough field and never converts it)
UnitFields(cls) ==
    {"dt", "dtm", "qubit_lo_range", "meas_lo_range", "rep_times",
     "rep_delay_range"}
        \cup (IF cls = "Pulse" THEN {"hamiltonian"} ELSE {})

\* one conversion of the value of field k, to SI units or back
ConvertedOnce(k, value, to_SI) ==
    CASE k \in {"dt", "dtm"} ->
             f64_mul(value, IF to_SI THEN f64_1e_9 ELSE f64_1e9)
      [] k \in {"qubit_lo_range", "meas_lo_range"} ->
             scale_ranges(value, IF to_SI THEN f64_1e9 ELSE f64_1e_9)
      [] k \in {"rep_times", "rep_delay_range"} ->
             scale_list(value, IF to_SI THEN f64_1e_6 ELSE f64_1e6)
      [] k = "hamiltonian" ->
             [value EXCEPT
                 !.vars = scale_vars(@, IF to_SI THEN f64_1e9 ELSE f64_1e_9)]

\* the unit fields the configuration stores, and the stored values
StoredFields ==
    {k \in UnitFields(config.cls) :
        IF k = "hamiltonian" THEN config.attrs.hamiltonian # <<>>
        ELSE hasattr(config, k)}
Stored(k) ==
    IF k = "hamiltonian" THEN config.attrs.hamiltonian[1]
    ELSE getattr(config, k)

\* every stored unit field is the wire value converted once, at all times
C32_StoredOnce ==
    config.built =>
        \A k \in StoredFields :
            /\ k \in DOMAIN wire.data
            /\ Stored(k) = ConvertedOnce(k, wire.data[k], TRUE)

\* every stored unit field is in the dictionary to_dict returns, converted once
C32_SerializedOnce ==
    cout.op = "to_dict" =>
        \A k \in StoredFields :
            /\ k \in DOMAIN cout.ret[1]
            /\ cout.ret[1][k] = ConvertedOnce(k, Stored(k), FALSE)

\* to_dict leaves the configuration as it was, and two calls in a row return
\* equal dictionaries
C32_ToDictRepeatable ==
    [][cout'.op = "to_dict" =>
           /\ config' = config
           /\ cout.op = "to_dict" => cout' = cout]_vars

\* the dictionary given to from_dict is never modified
C32_InputKept == [][wire' = wire]_vars

\* C32: unit conversion happens exactly once at construction and exactly once
\* per serialization: the stored values of dt, dtm, the lo ranges, rep_times,
\* rep_delay_range and the hamiltonian vars are the wire values converted
\* once and stay so, to_dict returns each of them converted back once, returns
\* equal dictionaries however often it is called and changes nothing stored,
\* and from_dict does not modify the dictionary it is given.
C32_ConvertedOnce ==
    /\ []C32_StoredOnce
    /\ []C32_SerializedOnce
    /\ C32_ToDictRepeatable
    /\ C32_InputKept


(***************************************************************************)
(* The job: further properties.                                            *)
(***************************************************************************)
\* C35: a cancel() call that fails, with a 409 conflict or with any other
\* transport failure, leaves the status of the Job object as it was before
\* the call; only a cancel() that succeeds writes CANCELLED.
C35_FailedCancelKeepsStatus ==
    [][(out'.op = "cancel" /\ cancel) =>
           /\ out'.exc # None => _status' = _status
           /\ out'.exc = None =>
                  (calls'.status_code = 200 /\ _status' = "CANCELLED")
           /\ (_status' # _status) => out'.exc = None]_vars

C35_Witness ==
    /\ out.op = "cancel"
    /\ out.exc = "IBMRuntimeError"
    /\ calls.status_code = 500
    /\ _status = "RUNNING"
    /\ srvStatus = "Running"

\* C36: result() on a job whose final status is ERROR or CANCELLED raises
\* before the result fetch: it has made no job_results call and no decoder
\* call when it ends.
C36_NoFetchOnFailure ==
    (ResultEnded /\ _status \in {"ERROR", "CANCELLED"}) =>
        /\ out.exc \in {"RuntimeJobFailureError", "RuntimeJobMaxTimeoutError",
                        "RuntimeInvalidStateError"}
        /\ calls.results = 0
        /\ calls.decode = 0

C36_Witness ==
    /\ ResultEnded
    /\ _status = "CANCELLED"
    /\ srvResult # None
    /\ out.exc = "RuntimeInvalidStateError"
    /\ calls.results = 0
    /\ calls.decode = 0

\* C37: wait_for_final_state polls the status before it can time out and
\* tests the timeout only after a poll that returned a non-terminal status:
\* a call that raised RuntimeJobTimeoutError has polled the service and its
\* last poll was not terminal; with timeout 0 it never
\* sleeps, returns normally when its poll is terminal and raises
\* RuntimeJobTimeoutError at once when its poll is not.
C37_PollBeforeTimeout ==
    /\ [](TimedWaitEnded =>
            /\ out.exc = "RuntimeJobTimeoutError" =>
                   /\ calls.status >= 1
                   /\ _status \notin TerminalValues
            /\ call.timeout = 0 =>
                   /\ sleeps = 0
                   /\ _status \in TerminalValues => out.exc = None
                   /\ _status \notin TerminalValues =>
                          (out.exc = "RuntimeJobTimeoutError"
                              /\ calls.status = 1))
    /\ [][(pc = "waiting" /\ call.timeout = 0 /\ pc' = "waiting")
             => (sleeps' = 0 /\ calls' = calls /\ _status' = _status)]_vars

C37_Witness ==
    /\ TimedWaitEnded
    /\ call.timeout = 0
    /\ out.exc = "RuntimeJobTimeoutError"
    /\ sleeps = 0
    /\ calls.status = 1
    /\ _status = "RUNNING"

\* the service reports a status outside the table and the Job object holds
\* no terminal status
ReportsUnmapped == srvStatus = "Pending" /\ _status \notin TerminalValues

\* C38: a passed-through status is not terminal: while the service reports
\* it, status() polls again and returns it, in_final_state(), done(),
\* cancelled() and errored() poll and return False, and a
\* wait_for_final_state that holds it polls again unless the timeout has
\* passed, in which case it raises RuntimeJobTimeoutError; it never returns
\* on it.
C38_UnmappedNotTerminal ==
    /\ [][(ReportsUnmapped /\ pc = "idle" /\ UNCHANGED srvVars
              /\ out'.op \in {"status", "in_final_state", "done",
                              "cancelled", "errored"}) =>
             /\ calls'.status = 1
             /\ _status' = "PENDING"
             /\ out'.op = "status" => out'.ret = <<"PENDING">>
             /\ out'.op # "status" => out'.ret = <<FALSE>>]_vars
    /\ [][(pc = "waiting" /\ _status = "PENDING" /\ UNCHANGED srvVars) =>
             IF timed_out
             THEN pc' = "idle" /\ out'.exc = "RuntimeJobTimeoutError"
             ELSE pc' = "waiting" /\ calls'.status = 1]_vars

C38_Witness ==
    /\ srvStatus = "Pending"
    /\ _status = "PENDING"
    /\ pc = "waiting"
    /\ call.op = "wait_for_final_state"
    /\ sleeps = 1
    /\ calls.status = 1

\* a backend() call that waited has ended without a backend: it returned
\* None, its wait timed out, or the metadata fetch failed
NoBackendResolved ==
    /\ pc = "idle"
    /\ out.op = "backend"
    /\ call.op = "backend"
    /\ \/ out.exc \in {"RuntimeJobTimeoutError", "IBMRuntimeError"}
       \/ out = Returned("backend", None)

\* C39: backend() caches only a backend it resolved: after a call that
\* returned None, timed out or failed in the metadata fetch the cached backend
\* is absent, the next backend() call starts the wait again, and every
\* backend() call whose wait ends on a terminal status fetches the metadata.
C39_CachesOnlySuccess ==
    /\ [](NoBackendResolved => _backend = None)
    /\ [][(NoBackendResolved /\ out'.op = "backend" /\ UNCHANGED srvVars) =>
             /\ pc' = "waiting"
             /\ out' = Blocked("backend")
             /\ calls'.job_get = 0
             /\ _backend' = None]_vars
    /\ [][(pc = "waiting" /\ call.op = "backend" /\ pc' = "idle") =>
             \/ out'.exc = "RuntimeJobTimeoutError" /\ calls'.job_get = 0
             \/ calls'.job_get = 1]_vars

C39_Witness ==
    /\ NoBackendResolved
    /\ out.exc = "IBMRuntimeError"
    /\ calls.job_get = 1
    /\ _backend = None
    /\ _status = "DONE"

\* a wait_for_final_state(timeout=None) call is in its loop
UntimedWaiting ==
    /\ pc = "waiting"
    /\ call.op = "wait_for_final_state"
    /\ call.timeout = NoTimeout

C33_DefaultSession ==
    /\ pout.op = "__enter__" => _DEFAULT_SESSION = <<Session(pout.arg)>>
    /\ pout.op = "__exit__" => _DEFAULT_SESSION = <<>>
    /\ (pout.op = "__init__" /\ pout.ambient # <<>>) =>
           /\ pout.arg = NoMode =>
                  /\ pout.exc = None
                  /\ inst.built
                  /\ inst.mode = pout.ambient
                  /\ inst.backend = pout.ambient[1].backend
           /\ (pout.arg.type = "backend"
                  /\ pout.arg.backend # pout.ambient[1].backend) =>
                  pout.exc = "ValueError"

C33_Witness ==
    /\ pout.op = "__init__"
    /\ pout.arg = NoMode
    /\ pout.ambient = <<Session("ibm_gotham")>>
    /\ _DEFAULT_SESSION = <<Session("ibm_gotham")>>
    /\ inst.built
    /\ inst.primitive = "SamplerV2"
    /\ inst.mode = <<Session("ibm_gotham")>>

\* the faulty qubits and the faulty edges that the circuits of pubs use
FaultsUsed(pubs, fault) ==
    {[kind |-> "faulty qubit", name |-> pubs[i][j].name,
      qubits |-> <<pubs[i][j].qubits[k]>>] :
        <<i, j, k>> \in {t \in (DOMAIN pubs) \X (1..(MaxQubits + 1)) \X (1..2) :
                            /\ t[2] \in DOMAIN pubs[t[1]]
                            /\ t[3] \in DOMAIN pubs[t[1]][t[2]].qubits
                            /\ pubs[t[1]][t[2]].qubits[t[3]]
                                   \in fault.faulty_qubits}}
    \cup
    {[kind |-> "faulty edge", name |-> pubs[i][j].name,
      qubits |-> pubs[i][j].qubits] :
        <<i, j>> \in {t \in (DOMAIN pubs) \X (1..(MaxQubits + 1)) :
                         /\ t[2] \in DOMAIN pubs[t[1]]
                         /\ <<pubs[t[1]][t[2]].name, pubs[t[1]][t[2]].qubits>>
                                \in fault.faulty_edges}}

\* C34: run() raises ValueError naming a faulty qubit or a faulty edge that a
\* submitted circuit uses, and hands nothing to the transport, if any one of
\* the submitted circuits uses a faulty qubit or edge of the backend; when
\* none does, run() raises nothing and submits exactly once.
C34_ValidationBeforeSubmit ==
    [][(pout'.op = "run" /\ inst.built /\ (pout' # pout \/ submits' # submits)) =>
           LET used == FaultsUsed(pout'.arg, faults[inst.backend])
           IN  IF used # {}
               THEN /\ pout'.exc = "ValueError"
                    /\ pout'.named # <<>>
                    /\ pout'.named[1] \in used
                    /\ submits' = submits
               ELSE /\ pout'.exc = None
                    /\ submits' = submits + 1]_vars

C34_Witness ==
    /\ pout.op = "run"
    /\ Len(pout.arg) = 2
    /\ pout.arg[1] = x_on(<<0>>)
    /\ faults[inst.backend].faulty_qubits = {MaxQubits}
    /\ pout.exc = "ValueError"
    /\ pout.named = <<[kind |-> "faulty qubit", name |-> "x",
                       qubits |-> <<MaxQubits>>]>>
    /\ submits = 0

=============================================================================
